---- MODULE Spec2Model ----
(***************************************************************************)
(* starsim vital dynamics: the full Pregnancy module                       *)
(* (src/starsim/demographics.py), the Module lifecycle                     *)
(* (src/starsim/modules.py) and the rate-to-probability resolution of      *)
(* Deaths, Pregnancy and PregnancyLite.                                    *)
(*                                                                         *)
(* Time.  All durations and ages are integers counted in quarter years     *)
(* (TimeUnit quarters = one year), so that the default gestation of 0.75   *)
(* years is DurPregnancy = 3.  A timestep is Dt quarters.  A time index    *)
(* kept by the module (ti_pregnant, ti_delivery, ti_postpartum, ti_dead,   *)
(* an edge's start and end) is stored multiplied by Dt, so that            *)
(* ti + dur_pregnancy/dt is the integer ti*Dt + DurPregnancy and the test  *)
(* "ti_delivery <= ti" is "ti_delivery <= ti*Dt".                          *)
(*                                                                         *)
(* Probabilities are integers counted in 1/ProbScale.                      *)
(***************************************************************************)
EXTENDS Integers, Sequences, FiniteSets, TLC

\* ------------------------------------------------------------------ bounds
NAgents     == 2   \* sim.pars.n_agents: size of the initial population
MaxAgents   == 4   \* UIDs ever issued (initial population and embryos)
MaxTi       == 1   \* the last simulated time index
MaxBgDeaths == 1   \* removals decided by the Deaths module in one run

\* ------------------------------------------------------- program constants
NaN          == -1000 \* np.nan of the FloatArr states
TimeUnit     == 4     \* quarters in a year
DurPregnancy == 3     \* pars.dur_pregnancy = 0.75 years
MinAge       == 60    \* pars.min_age = 15 years
MaxAge       == 200   \* pars.max_age = 50 years
FertilityRate == 400  \* pars.fertility_rate, a scalar, per 1000 per year
RelFertility == 1     \* pars.rel_fertility
SexRatio     == 4000  \* the p of pars.sex_ratio, in 1/ProbScale: babies born female
ProbScale    == 4000  \* 1 / (pars.units * one quarter) = 1000 * TimeUnit

UIDs       == 0..(MaxAgents - 1)
DurPostSet == {1, 3}  \* draws of pars.dur_postpartum (positive durations)
DtSet      == {1, 2}  \* sim.pars.dt: quarterly or half-yearly steps

VARIABLES
    Dt,        \* sim.pars.dt in quarters
    burnin,    \* pars.burnin
    pNeonatal, \* the p of pars.p_neonataldeath_on_maternaldeath, in 1/ProbScale
    ti,        \* sim.ti (the module's ti reads the same counter)
    pc,        \* position of the scheduler within the timestep
    people,    \* sim.people: n, alive, age, female, parent
    mod,       \* the Pregnancy module's states and counters
    networks,  \* sim.networks: a sequence of layers
    reqDeath,  \* UIDs submitted through people.request_death, not yet removed
    err,       \* the error that terminated the run, or "none"
    nBg,       \* removals decided by Deaths so far
    lastOp,    \* the entry point the scheduler used last: "update" or "step"
    updTis,    \* time indices at which do_update ran in the current update
    lastDead,  \* death_uids of the last update_death callback
    endStatus, \* each agent's reproductive status when the last timestep ended
    mods,      \* the Births and the Deaths module: lifecycle flags and counter
    query,     \* a rate query: an agent's age, the rate table, rel_*, dt
    res        \* the bin and the probability the last rate resolution returned

vars == <<Dt, burnin, pNeonatal, ti, pc, people, mod, networks, reqDeath,
          err, nBg, lastOp, updTis, lastDead, endStatus, mods, query, res>>

\* the variables of the Pregnancy run, of the lifecycle run and of the rate
\* resolution
pregVars == <<burnin, pNeonatal, mod, networks, err, lastOp, updTis, lastDead,
              endStatus>>
lifeVars == <<mods>>
rateVars == <<query, res>>

\* ----------------------------------------------------------------- helpers
\* numpy comparison with nan: nan <= t is False
Leq(x, t) == x # NaN /\ x <= t

Max(a, b) == IF a >= b THEN a ELSE b
Min(a, b) == IF a <= b THEN a ELSE b

CeilDiv(a, b) == (a + b - 1) \div b

\* np.clip(x, a_min=lo, a_max=hi)
Clip(x, lo, hi) == Max(lo, Min(x, hi))

\* uids are kept sorted: the ascending sequence of a set of UIDs
SortedSeq(S) ==
    CHOOSE s \in [1..Cardinality(S) -> S] :
        \A i, j \in 1..Cardinality(S) : i < j => s[i] < s[j]

\* position (1-based) of u in the ascending order of S
Rank(u, S) == Cardinality({v \in S : v <= u})

\* the alive UIDs (people.auids)
AUIDs(ppl) == {u \in UIDs : u < ppl.n /\ ppl.alive[u]}

\* ------------------------------------------------------------ the networks
\* MaternalNet.add_pairs: append one edge per mother, end = start + dur
RECURSIVE add_pairs(_, _, _, _, _)
add_pairs(edges, p1s, p2of, durof, start) ==
    IF p1s = <<>> THEN edges
    ELSE LET m == Head(p1s)
         IN add_pairs(Append(edges, [p1 |-> m, p2 |-> p2of[m], dur |-> durof[m],
                                     start |-> start, end |-> start + durof[m]]),
                      Tail(p1s), p2of, durof, start)

\* MaternalNet.end_pairs: keep the edges that have not ended
end_pairs(edges, now) == SelectSeq(edges, LAMBDA e : e.end > now)

\* index of the first prenatal layer, 0 if there is none
FirstPrenatal(nw) ==
    IF \E i \in 1..Len(nw) : nw[i].prenatal
    THEN CHOOSE i \in 1..Len(nw) : nw[i].prenatal /\ \A j \in 1..(i-1) : ~nw[j].prenatal
    ELSE 0

\* -------------------------------------------------- Pregnancy.update_states
\* the loop over sim.networks of update_states; returns the networks and the
\* error raised, if any
RECURSIVE PostnatalLoop(_, _, _, _, _)
PostnatalLoop(i, nw, m, deliveries, now) ==
    IF i > Len(nw) THEN [networks |-> nw, err |-> "none"]
    ELSE IF nw[i].postnatal /\ m.n_births > 0
    THEN LET pi == FirstPrenatal(nw)
         IN IF pi = 0 THEN [networks |-> nw, err |-> "index"]
            ELSE
            LET prenatal_ending == SelectSeq(nw[pi].edges, LAMBDA e : e.end <= now)
                new_mother_uids == [k \in 1..Len(prenatal_ending) |-> prenatal_ending[k].p1]
                infant == [u \in UIDs |->
                             IF \E k \in 1..Len(prenatal_ending) : prenatal_ending[k].p1 = u
                             THEN prenatal_ending[CHOOSE k \in 1..Len(prenatal_ending) :
                                                     prenatal_ending[k].p1 = u].p2
                             ELSE NaN]
                nw1 == [nw EXCEPT ![pi].edges = end_pairs(@, now)]
                nw2 == [nw1 EXCEPT ![i].edges =
                           add_pairs(@, new_mother_uids, infant, m.dur_postpartum, now)]
            IN IF new_mother_uids # SortedSeq(deliveries)
               THEN [networks |-> nw, err |-> "mismatch"]
               ELSE PostnatalLoop(i + 1, nw2, m, deliveries, now)
    ELSE PostnatalLoop(i + 1, nw, m, deliveries, now)

\* faulty variant: every postpartum agent leaves postpartum, whatever her
\* ti_postpartum
update_states_ExitAll(m, nw, req, ppl, t) ==
    LET now == t * Dt
        deliveries == {u \in AUIDs(ppl) : m.pregnant[u] /\ Leq(m.ti_delivery[u], now)}
        m1 == [m EXCEPT !.n_births   = Cardinality(deliveries),
                        !.pregnant   = [u \in UIDs |-> IF u \in deliveries THEN FALSE ELSE @[u]],
                        !.postpartum = [u \in UIDs |-> IF u \in deliveries THEN TRUE ELSE @[u]],
                        !.fecund     = [u \in UIDs |-> IF u \in deliveries THEN FALSE ELSE @[u]]]
        loop == PostnatalLoop(1, nw, m1, deliveries, now)
        postpartum == {u \in AUIDs(ppl) : m1.postpartum[u]}
        m2 == [m1 EXCEPT !.postpartum = [u \in UIDs |-> IF u \in postpartum THEN FALSE ELSE @[u]],
                         !.fecund     = [u \in UIDs |-> IF u \in postpartum THEN TRUE ELSE @[u]],
                         !.child_uid  = [u \in UIDs |-> IF u \in postpartum THEN NaN ELSE @[u]]]
        maternal_deaths == {u \in AUIDs(ppl) : Leq(m2.ti_dead[u], now)}
    IN IF loop.err # "none"
       THEN [mod |-> m1, networks |-> loop.networks, req |-> req, err |-> loop.err]
       ELSE [mod |-> m2, networks |-> loop.networks, req |-> req \cup maternal_deaths,
             err |-> "none"]

\* faulty variant: a delivery is resolved one time unit late
update_states_LateDelivery(m, nw, req, ppl, t) ==
    LET now == t * Dt
        deliveries == {u \in AUIDs(ppl) : m.pregnant[u] /\ Leq(m.ti_delivery[u], now - 1)}
        m1 == [m EXCEPT !.n_births   = Cardinality(deliveries),
                        !.pregnant   = [u \in UIDs |-> IF u \in deliveries THEN FALSE ELSE @[u]],
                        !.postpartum = [u \in UIDs |-> IF u \in deliveries THEN TRUE ELSE @[u]],
                        !.fecund     = [u \in UIDs |-> IF u \in deliveries THEN FALSE ELSE @[u]]]
        loop == PostnatalLoop(1, nw, m1, deliveries, now)
        postpartum == {u \in AUIDs(ppl) : m1.postpartum[u] /\ Leq(m1.ti_postpartum[u], now)}
        m2 == [m1 EXCEPT !.postpartum = [u \in UIDs |-> IF u \in postpartum THEN FALSE ELSE @[u]],
                         !.fecund     = [u \in UIDs |-> IF u \in postpartum THEN TRUE ELSE @[u]],
                         !.child_uid  = [u \in UIDs |-> IF u \in postpartum THEN NaN ELSE @[u]]]
        maternal_deaths == {u \in AUIDs(ppl) : Leq(m2.ti_dead[u], now)}
    IN IF loop.err # "none"
       THEN [mod |-> m1, networks |-> loop.networks, req |-> req, err |-> loop.err]
       ELSE [mod |-> m2, networks |-> loop.networks, req |-> req \cup maternal_deaths,
             err |-> "none"]

\* returns the module, the networks, the death requests and the error raised
update_states(m, nw, req, ppl, t) ==
    LET now == t * Dt
        deliveries == {u \in AUIDs(ppl) : m.pregnant[u] /\ Leq(m.ti_delivery[u], now)}
        m1 == [m EXCEPT !.n_births   = Cardinality(deliveries),
                        !.pregnant   = [u \in UIDs |-> IF u \in deliveries THEN FALSE ELSE @[u]],
                        !.postpartum = [u \in UIDs |-> IF u \in deliveries THEN TRUE ELSE @[u]],
                        !.fecund     = [u \in UIDs |-> IF u \in deliveries THEN FALSE ELSE @[u]]]
        loop == PostnatalLoop(1, nw, m1, deliveries, now)
        postpartum == {u \in AUIDs(ppl) : m1.postpartum[u] /\ Leq(m1.ti_postpartum[u], now)}
        m2 == [m1 EXCEPT !.postpartum = [u \in UIDs |-> IF u \in postpartum THEN FALSE ELSE @[u]],
                         !.fecund     = [u \in UIDs |-> IF u \in postpartum THEN TRUE ELSE @[u]],
                         !.child_uid  = [u \in UIDs |-> IF u \in postpartum THEN NaN ELSE @[u]]]
        maternal_deaths == {u \in AUIDs(ppl) : Leq(m2.ti_dead[u], now)}
    IN IF loop.err # "none"
       THEN [mod |-> m1, networks |-> loop.networks, req |-> req, err |-> loop.err]
       ELSE [mod |-> m2, networks |-> loop.networks, req |-> req \cup maternal_deaths,
             err |-> "none"]

\* ------------------------------------------ Pregnancy.make_fertility_prob_fn
\* faulty variant: the probability of non-fecund agents is not zeroed
make_fertility_prob_fn_KeepNonFecund(m, ppl, u) ==
    LET age == ppl.age[u]
        invalid_age == (age < MinAge) \/ (age > MaxAge)
        fertility_prob == m.fertility_rate_data * RelFertility * Dt
    IN IF m.infertile[u] \/ invalid_age
       THEN 0
       ELSE Clip(fertility_prob, 0, ProbScale)

\* the conception probability of candidate u, in 1/ProbScale (scalar
\* fertility_rate)
make_fertility_prob_fn(m, ppl, u) ==
    LET age == ppl.age[u]
        invalid_age == (age < MinAge) \/ (age > MaxAge)
        fertility_prob == m.fertility_rate_data * RelFertility * Dt
    IN IF ~m.fecund[u] \/ m.infertile[u] \/ invalid_age
       THEN 0
       ELSE Clip(fertility_prob, 0, ProbScale)

\* bernoulli.filter: the subsets a Bernoulli trial per candidate can select
\* (p[u] is the probability of candidate u)
BernoulliFilter(cands, p) ==
    {S \in SUBSET cands :
        /\ \A u \in S : p[u] > 0
        /\ \A u \in cands : p[u] >= ProbScale => u \in S}

\* ------------------------------------------------- Pregnancy.set_prognoses
\* faulty variant: fecund is not cleared at conception
set_prognoses_KeepFecund(m, uids, t, durs, dead) ==
    LET now == t * Dt
    IN [m EXCEPT
          !.pregnant       = [u \in UIDs |-> IF u \in uids THEN TRUE ELSE @[u]],
          !.ti_pregnant    = [u \in UIDs |-> IF u \in uids THEN now ELSE @[u]],
          !.ti_delivery    = [u \in UIDs |-> IF u \in uids THEN now + DurPregnancy ELSE @[u]],
          !.ti_postpartum  = [u \in UIDs |-> IF u \in uids
                                             THEN now + DurPregnancy + durs[u] ELSE @[u]],
          !.dur_postpartum = [u \in UIDs |-> IF u \in uids THEN durs[u] ELSE @[u]],
          !.ti_dead        = [u \in UIDs |-> IF u \in dead THEN now + DurPregnancy ELSE @[u]]]

\* faulty variant: the postpartum period has no duration
set_prognoses_NoPostpartum(m, uids, t, durs, dead) ==
    LET now == t * Dt
    IN [m EXCEPT
          !.fecund         = [u \in UIDs |-> IF u \in uids THEN FALSE ELSE @[u]],
          !.pregnant       = [u \in UIDs |-> IF u \in uids THEN TRUE ELSE @[u]],
          !.ti_pregnant    = [u \in UIDs |-> IF u \in uids THEN now ELSE @[u]],
          !.ti_delivery    = [u \in UIDs |-> IF u \in uids THEN now + DurPregnancy ELSE @[u]],
          !.ti_postpartum  = [u \in UIDs |-> IF u \in uids THEN now + DurPregnancy ELSE @[u]],
          !.dur_postpartum = [u \in UIDs |-> IF u \in uids THEN durs[u] ELSE @[u]],
          !.ti_dead        = [u \in UIDs |-> IF u \in dead THEN now + DurPregnancy ELSE @[u]]]

set_prognoses(m, uids, t, durs, dead) ==
    LET now == t * Dt
    IN [m EXCEPT
          !.fecund         = [u \in UIDs |-> IF u \in uids THEN FALSE ELSE @[u]],
          !.pregnant       = [u \in UIDs |-> IF u \in uids THEN TRUE ELSE @[u]],
          !.ti_pregnant    = [u \in UIDs |-> IF u \in uids THEN now ELSE @[u]],
          !.ti_delivery    = [u \in UIDs |-> IF u \in uids THEN now + DurPregnancy ELSE @[u]],
          !.ti_postpartum  = [u \in UIDs |-> IF u \in uids
                                             THEN now + DurPregnancy + durs[u] ELSE @[u]],
          !.dur_postpartum = [u \in UIDs |-> IF u \in uids THEN durs[u] ELSE @[u]],
          !.ti_dead        = [u \in UIDs |-> IF u \in dead THEN now + DurPregnancy ELSE @[u]]]

\* --------------------------------------------------- Pregnancy.make_embryos
\* people.grow issues the next UIDs, one per conceiving mother in uid order
NewUid(ppl, u, conceive_uids) == ppl.n + Rank(u, conceive_uids) - 1

\* faulty variant: an embryo made in a burn-in replay is not aged to ti = 0
make_embryos_people_NotAged(ppl, conceive_uids, t, girls) ==
    LET new_uids == {NewUid(ppl, u, conceive_uids) : u \in conceive_uids}
        mother(c) == CHOOSE u \in conceive_uids : NewUid(ppl, u, conceive_uids) = c
    IN [ppl EXCEPT
          !.n      = @ + Cardinality(conceive_uids),
          !.alive  = [c \in UIDs |-> IF c \in new_uids THEN TRUE ELSE @[c]],
          !.age    = [c \in UIDs |-> IF c \in new_uids THEN -DurPregnancy ELSE @[c]],
          !.female = [c \in UIDs |-> IF c \in new_uids THEN mother(c) \in girls ELSE @[c]],
          !.parent = [c \in UIDs |-> IF c \in new_uids THEN mother(c) ELSE @[c]]]

make_embryos_people(ppl, conceive_uids, t, girls) ==
    LET new_uids == {NewUid(ppl, u, conceive_uids) : u \in conceive_uids}
        mother(c) == CHOOSE u \in conceive_uids : NewUid(ppl, u, conceive_uids) = c
        age0 == (-DurPregnancy) + (IF t < 0 THEN (-t) * Dt ELSE 0)
    IN [ppl EXCEPT
          !.n      = @ + Cardinality(conceive_uids),
          !.alive  = [c \in UIDs |-> IF c \in new_uids THEN TRUE ELSE @[c]],
          !.age    = [c \in UIDs |-> IF c \in new_uids THEN age0 ELSE @[c]],
          !.female = [c \in UIDs |-> IF c \in new_uids THEN mother(c) \in girls ELSE @[c]],
          !.parent = [c \in UIDs |-> IF c \in new_uids THEN mother(c) ELSE @[c]]]

\* faulty variant: every conceiving mother is given the first new UID
make_embryos_mod_SameChild(m, ppl, conceive_uids) ==
    [m EXCEPT !.child_uid = [u \in UIDs |-> IF u \in conceive_uids THEN ppl.n ELSE @[u]]]

make_embryos_mod(m, ppl, conceive_uids) ==
    [m EXCEPT !.child_uid = [u \in UIDs |-> IF u \in conceive_uids
                                            THEN NewUid(ppl, u, conceive_uids) ELSE @[u]]]

make_embryos_networks(nw, ppl, conceive_uids, t) ==
    IF conceive_uids = {} THEN nw
    ELSE [i \in 1..Len(nw) |->
            IF nw[i].prenatal
            THEN [nw[i] EXCEPT !.edges =
                    add_pairs(@, SortedSeq(conceive_uids),
                              [u \in UIDs |-> NewUid(ppl, u, conceive_uids)],
                              [u \in UIDs |-> DurPregnancy], t * Dt)]
            ELSE nw[i]]

\* ------------------------------------------------- Pregnancy.make_pregnancies
\* the validation of make_pregnancies: a selected agent is pregnant
ConceptionError(m, conceive_uids) == \E u \in conceive_uids : m.pregnant[u]

\* faulty variant: n_pregnancies adds up over the calls of do_update
do_update_Accumulate(t, conceive_uids, durs, dead, girls) ==
    LET us == update_states(mod, networks, reqDeath, people, t)
    IN IF us.err # "none"
       THEN /\ mod' = us.mod
            /\ networks' = us.networks
            /\ err' = us.err
            /\ UNCHANGED <<people, reqDeath>>
       ELSE IF ConceptionError(us.mod, conceive_uids)
       THEN /\ mod' = us.mod
            /\ networks' = us.networks
            /\ reqDeath' = us.req
            /\ err' = "conception"
            /\ UNCHANGED people
       ELSE LET m3 == IF conceive_uids # {}
                      THEN set_prognoses(us.mod, conceive_uids, t, durs, dead)
                      ELSE us.mod
                m4 == [m3 EXCEPT !.n_pregnancies = @ + Cardinality(conceive_uids)]
            IN /\ mod' = make_embryos_mod(m4, people, conceive_uids)
               /\ people' = make_embryos_people(people, conceive_uids, t, girls)
               /\ networks' = make_embryos_networks(us.networks, people, conceive_uids, t)
               /\ reqDeath' = us.req
               /\ err' = "none"

\* ------------------------------------------------------- Pregnancy.do_update
\* One do_update at time index t.  The draws of the call are its inputs:
\* conceive_uids (p_fertility.filter), durs (dur_postpartum.rvs), dead
\* (maternal_death_prob.rvs, a p strictly between 0 and 1) and girls
\* (sex_ratio.rvs).
do_update(t, conceive_uids, durs, dead, girls) ==
    LET us == update_states(mod, networks, reqDeath, people, t)
    IN IF us.err # "none"
       THEN /\ mod' = us.mod
            /\ networks' = us.networks
            /\ err' = us.err
            /\ UNCHANGED <<people, reqDeath>>
       ELSE IF ConceptionError(us.mod, conceive_uids)
       THEN /\ mod' = us.mod
            /\ networks' = us.networks
            /\ reqDeath' = us.req
            /\ err' = "conception"
            /\ UNCHANGED people
       ELSE LET m3 == IF conceive_uids # {}
                      THEN set_prognoses(us.mod, conceive_uids, t, durs, dead)
                      ELSE us.mod
                m4 == [m3 EXCEPT !.n_pregnancies = Cardinality(conceive_uids)]
            IN /\ mod' = make_embryos_mod(m4, people, conceive_uids)
               /\ people' = make_embryos_people(people, conceive_uids, t, girls)
               /\ networks' = make_embryos_networks(us.networks, people, conceive_uids, t)
               /\ reqDeath' = us.req
               /\ err' = "none"

\* the draws one do_update can see at time index t
DoUpdate(t) ==
    LET us == update_states(mod, networks, reqDeath, people, t)
        eligible_uids == {u \in AUIDs(people) : people.female[u]}
        sel == BernoulliFilter(eligible_uids,
                   [u \in eligible_uids |-> make_fertility_prob_fn(us.mod, people, u)])
    IN \E conceive_uids \in sel :
          /\ people.n + Cardinality(conceive_uids) <= MaxAgents
          /\ \E durs \in [conceive_uids -> DurPostSet] :
             \E dead \in SUBSET conceive_uids :
             \E girls \in BernoulliFilter(conceive_uids, [u \in conceive_uids |-> SexRatio]) :
                do_update(t, conceive_uids,
                          [u \in UIDs |-> IF u \in conceive_uids THEN durs[u] ELSE NaN],
                          dead, girls)

\* Pregnancy.update_results: the values written at the current time index
\* of the results 'pregnancies' and 'births'
update_results(m) ==
    [pregnancies |-> m.n_pregnancies, births |-> m.n_births]

\* ---------------------------------------------------------- Pregnancy.update
\* np.arange(np.ceil(-1 * dur_pregnancy / dt), 0, 1): the first replay index.
\* ceil(-x) = -floor(x)
\* faulty variant: the replay starts at -ceil(dur_pregnancy / dt)
BurninStart_Ceil == -CeilDiv(DurPregnancy, Dt)

\* the reproductive status the flags pregnant, postpartum and fecund give an
\* agent
status(m, u) ==
    IF m.pregnant[u] THEN "pregnant"
    ELSE IF m.postpartum[u] THEN "postpartum"
    ELSE IF m.fecund[u] THEN "fecund"
    ELSE "none"

\* no timestep has ended yet
NoStatus == [u \in UIDs |-> "unobserved"]

BurninStart == -(DurPregnancy \div Dt)

\* update is entered: with burn-in at step 0 the clock is set to the first
\* replay index, if there is one
UpdateEnter ==
    /\ pc = "sched" /\ err = "none"
    /\ lastOp' = "update"
    /\ updTis' = <<>>
    /\ IF ti = 0 /\ burnin /\ BurninStart < 0
       THEN ti' = BurninStart /\ pc' = "replay"
       ELSE ti' = ti /\ pc' = "final"
    /\ UNCHANGED <<lifeVars, rateVars>>
    /\ UNCHANGED <<Dt, burnin, pNeonatal, people, mod, networks, reqDeath, err,
                   nBg, lastDead, endStatus>>

\* faulty variant: the replay loop ends without sim.ti = 0
Replay_NoReset ==
    /\ pc = "replay" /\ err = "none"
    /\ DoUpdate(ti)
    /\ updTis' = Append(updTis, ti)
    /\ ti' = IF ti + 1 = 0 THEN ti ELSE ti + 1
    /\ pc' = IF ti + 1 = 0 THEN "final" ELSE "replay"
    /\ UNCHANGED <<lifeVars, rateVars>>
    /\ UNCHANGED <<Dt, burnin, pNeonatal, nBg, lastOp, lastDead, endStatus>>

\* one iteration of the replay loop; after the last one sim.ti = 0
Replay ==
    /\ pc = "replay" /\ err = "none"
    /\ DoUpdate(ti)
    /\ updTis' = Append(updTis, ti)
    /\ ti' = ti + 1
    /\ pc' = IF ti + 1 = 0 THEN "final" ELSE "replay"
    /\ UNCHANGED <<lifeVars, rateVars>>
    /\ UNCHANGED <<Dt, burnin, pNeonatal, nBg, lastOp, lastDead, endStatus>>

\* the do_update of the current step, which ends update
UpdateFinal ==
    /\ pc = "final" /\ err = "none"
    /\ DoUpdate(ti)
    /\ updTis' = Append(updTis, ti)
    /\ pc' = "deaths"
    /\ UNCHANGED <<lifeVars, rateVars>>
    /\ UNCHANGED <<Dt, burnin, pNeonatal, ti, nBg, lastOp, lastDead, endStatus>>

\* ---------------------------------------------------------------- Module.step
\* Pregnancy defines update and do_update but no step: the scheduler's call
\* of step (or of the module itself, __call__) runs Module.step, which is
\* "pass"
Step ==
    /\ pc = "sched" /\ err = "none"
    /\ lastOp' = "step"
    /\ updTis' = <<>>
    /\ pc' = "deaths"
    /\ UNCHANGED <<lifeVars, rateVars>>
    /\ UNCHANGED <<Dt, burnin, pNeonatal, ti, people, mod, networks, reqDeath, err,
                   nBg, lastDead, endStatus>>

\* ---------------------------------------------------- Pregnancy.update_death
\* returns the module and the death requests; neo is the draw of
\* p_neonataldeath_on_maternaldeath.filter
NeonateUids(m, death_uids) ==
    {m.child_uid[d] : d \in {x \in death_uids : m.pregnant[x]}}

\* faulty variant: ti_dead of the mother of a lost embryo is reset as well
update_death_ResetDead(m, req, ppl, death_uids, neo) ==
    LET is_prenatal == {d \in death_uids : ppl.age[d] < 0}
        mother_uids == {ppl.parent[d] : d \in is_prenatal}
        m1 == [m EXCEPT
                 !.pregnant      = [u \in UIDs |-> IF u \in mother_uids THEN FALSE ELSE @[u]],
                 !.fecund        = [u \in UIDs |-> IF u \in mother_uids THEN TRUE ELSE @[u]],
                 !.postpartum    = [u \in UIDs |-> IF u \in mother_uids THEN FALSE ELSE @[u]],
                 !.child_uid     = [u \in UIDs |-> IF u \in mother_uids THEN NaN ELSE @[u]],
                 !.ti_delivery   = [u \in UIDs |-> IF u \in mother_uids THEN NaN ELSE @[u]],
                 !.ti_postpartum = [u \in UIDs |-> IF u \in mother_uids THEN NaN ELSE @[u]],
                 !.ti_dead       = [u \in UIDs |-> IF u \in mother_uids THEN NaN ELSE @[u]]]
    IN [mod |-> m1, req |-> req \cup neo]

\* faulty variant: child_uid of the mother of a lost embryo is kept
update_death_KeepChild(m, req, ppl, death_uids, neo) ==
    LET is_prenatal == {d \in death_uids : ppl.age[d] < 0}
        mother_uids == {ppl.parent[d] : d \in is_prenatal}
        m1 == [m EXCEPT
                 !.pregnant      = [u \in UIDs |-> IF u \in mother_uids THEN FALSE ELSE @[u]],
                 !.fecund        = [u \in UIDs |-> IF u \in mother_uids THEN TRUE ELSE @[u]],
                 !.postpartum    = [u \in UIDs |-> IF u \in mother_uids THEN FALSE ELSE @[u]],
                 !.ti_delivery   = [u \in UIDs |-> IF u \in mother_uids THEN NaN ELSE @[u]],
                 !.ti_postpartum = [u \in UIDs |-> IF u \in mother_uids THEN NaN ELSE @[u]]]
    IN [mod |-> m1, req |-> req \cup neo]

update_death(m, req, ppl, death_uids, neo) ==
    LET is_prenatal == {d \in death_uids : ppl.age[d] < 0}
        mother_uids == {ppl.parent[d] : d \in is_prenatal}
        m1 == [m EXCEPT
                 !.pregnant      = [u \in UIDs |-> IF u \in mother_uids THEN FALSE ELSE @[u]],
                 !.fecund        = [u \in UIDs |-> IF u \in mother_uids THEN TRUE ELSE @[u]],
                 !.postpartum    = [u \in UIDs |-> IF u \in mother_uids THEN FALSE ELSE @[u]],
                 !.child_uid     = [u \in UIDs |-> IF u \in mother_uids THEN NaN ELSE @[u]],
                 !.ti_delivery   = [u \in UIDs |-> IF u \in mother_uids THEN NaN ELSE @[u]],
                 !.ti_postpartum = [u \in UIDs |-> IF u \in mother_uids THEN NaN ELSE @[u]]]
    IN [mod |-> m1, req |-> req \cup neo]

\* the death-handling collaborator: removes the requested agents and those
\* the Deaths module selected, then calls update_death with the removed UIDs
ResolveDeaths ==
    /\ pc = "deaths" /\ err = "none"
    /\ \E bg \in SUBSET AUIDs(people) :
          /\ Cardinality(bg) <= 1
          /\ nBg + Cardinality(bg) <= MaxBgDeaths
          /\ LET death_uids == (reqDeath \cap AUIDs(people)) \cup bg
                 ppl1 == [people EXCEPT !.alive = [u \in UIDs |->
                                           IF u \in death_uids THEN FALSE ELSE @[u]]]
                 neonates == NeonateUids(mod, death_uids)
             IN \E neo \in BernoulliFilter(neonates, [u \in neonates |-> pNeonatal]) :
                   LET ud == update_death(mod, {}, ppl1, death_uids, neo)
                   IN /\ people' = ppl1
                      /\ mod' = ud.mod
                      /\ reqDeath' = ud.req
                      /\ lastDead' = death_uids
                      /\ nBg' = nBg + Cardinality(bg)
    /\ pc' = "advance"
    /\ UNCHANGED <<lifeVars, rateVars>>
    /\ UNCHANGED <<Dt, burnin, pNeonatal, ti, networks, err, lastOp, updTis,
                   endStatus>>

\* the end of the timestep: the agents age by dt and the clock advances
FinishStep ==
    /\ pc = "advance" /\ err = "none"
    /\ ti < MaxTi
    /\ people' = [people EXCEPT !.age = [u \in UIDs |->
                     IF u \in AUIDs(people) THEN @[u] + Dt ELSE @[u]]]
    /\ ti' = ti + 1
    /\ pc' = "sched"
    /\ lastDead' = {}
    /\ endStatus' = [u \in UIDs |-> status(mod, u)]
    /\ UNCHANGED <<lifeVars, rateVars>>
    /\ UNCHANGED <<Dt, burnin, pNeonatal, mod, networks, reqDeath, err, nBg,
                   lastOp, updTis>>


\* ------------------------------------------------------- Module lifecycle
ModuleNames == {"births", "deaths"}

BirthRate == 2000  \* Births.pars.birth_rate, per 1000 per year
RelBirth  == 1     \* Births.pars.rel_birth

\* Module.__init__: initialized and finalized are False, no sim is linked, the
\* counter (n_births, n_deaths) is 0; new is the result series 'new'
NewModule == [linked |-> FALSE, initialized |-> FALSE, finalized |-> FALSE, n |-> 0,
              new |-> [t \in 0..MaxTi |-> 0]]

\* Module.init_pre: links the module to the sim
InitPre(M) ==
    /\ pc = "life"
    /\ ~mods[M].linked
    /\ mods' = [mods EXCEPT ![M].linked = TRUE]
    /\ UNCHANGED <<Dt, ti, pc, people, reqDeath, nBg, pregVars, rateVars>>

\* Module.init_post: the states get their values, initialized becomes True
InitPost(M) ==
    /\ pc = "life"
    /\ mods[M].linked
    /\ ~mods[M].initialized
    /\ mods' = [mods EXCEPT ![M].initialized = TRUE]
    /\ UNCHANGED <<Dt, ti, pc, people, reqDeath, nBg, pregVars, rateVars>>

\* Births.get_births: floor(alive count * clip(rate * units * rel * dt, 0, 1))
\* faulty variant: the number of births is rounded up
get_n_new_RoundedUp(alive_count, birth_rate, rel_birth, dt) ==
    LET scaled_birth_prob == Clip(birth_rate * rel_birth * dt, 0, ProbScale)
    IN CeilDiv(alive_count * scaled_birth_prob, ProbScale)

\* scaled_birth_prob = clip(rate * units * rel_birth * dt, 0, 1);
\* n_new = int(np.floor(alive.count() * scaled_birth_prob))
get_n_new(alive_count, birth_rate, rel_birth, dt) ==
    LET scaled_birth_prob == Clip(birth_rate * rel_birth * dt, 0, ProbScale)
    IN (alive_count * scaled_birth_prob) \div ProbScale

get_births(ppl) == get_n_new(Cardinality(AUIDs(ppl)), BirthRate, RelBirth, Dt)

\* faulty variant: the age of every agent is set to 0
add_births_AllAges(ppl, n_new) ==
    LET new_uids == {u \in UIDs : ppl.n <= u /\ u < ppl.n + n_new}
    IN [ppl EXCEPT
          !.n     = @ + n_new,
          !.alive = [u \in UIDs |-> IF u \in new_uids THEN TRUE ELSE @[u]],
          !.age   = [u \in UIDs |-> IF n_new > 0 THEN 0 ELSE @[u]]]

\* Births.add_births: people.grow(n_new), the new agents have age 0
add_births(ppl, n_new) ==
    LET new_uids == {u \in UIDs : ppl.n <= u /\ u < ppl.n + n_new}
    IN [ppl EXCEPT
          !.n     = @ + n_new,
          !.alive = [u \in UIDs |-> IF u \in new_uids THEN TRUE ELSE @[u]],
          !.age   = [u \in UIDs |-> IF u \in new_uids THEN 0 ELSE @[u]]]

\* Births.step.  It reads self.sim, which init_pre sets; it reads neither
\* initialized nor finalized
BirthsStep ==
    /\ pc = "life"
    /\ mods["births"].linked
    /\ LET n_new == get_births(people)
       IN /\ people.n + n_new <= MaxAgents
          /\ people' = add_births(people, n_new)
          /\ mods' = [mods EXCEPT !["births"].n = n_new]
    /\ UNCHANGED <<Dt, ti, pc, reqDeath, nBg, pregVars, rateVars>>

\* Deaths.step: death_rate.filter() over the alive agents, request_death.  It
\* uses the distribution that init_pre links; it reads neither initialized
\* nor finalized
DeathsStep ==
    /\ pc = "life"
    /\ mods["deaths"].linked
    /\ \E death_uids \in SUBSET AUIDs(people) :
          /\ Cardinality(death_uids) <= 1
          /\ nBg + Cardinality(death_uids) <= MaxBgDeaths
          /\ reqDeath' = reqDeath \cup death_uids
          /\ nBg' = nBg + Cardinality(death_uids)
          /\ mods' = [mods EXCEPT !["deaths"].n = Cardinality(death_uids)]
    /\ UNCHANGED <<Dt, ti, pc, people, pregVars, rateVars>>

\* Births.update_results and Deaths.update_results:
\* results['new'][ti] = n_births (n_deaths)
UpdateResults(M) ==
    /\ pc = "life"
    /\ mods[M].linked
    /\ mods' = [mods EXCEPT ![M].new[ti] = mods[M].n]
    /\ UNCHANGED <<Dt, ti, pc, people, reqDeath, nBg, pregVars, rateVars>>

\* Module.finalize: finalize_results, then finalized becomes True
Finalize(M) ==
    /\ pc = "life"
    /\ mods[M].linked
    /\ ~mods[M].finalized
    /\ mods' = [mods EXCEPT ![M].finalized = TRUE]
    /\ UNCHANGED <<Dt, ti, pc, people, reqDeath, nBg, pregVars, rateVars>>

\* the end of a timestep of the lifecycle run: the requested agents are
\* removed, the others age by dt and the clock advances
LifeFinishStep ==
    /\ pc = "life"
    /\ ti < MaxTi
    /\ people' = [people EXCEPT
                    !.alive = [u \in UIDs |-> IF u \in reqDeath THEN FALSE ELSE @[u]],
                    !.age   = [u \in UIDs |-> IF u \in AUIDs(people) \ reqDeath
                                              THEN @[u] + Dt ELSE @[u]]]
    /\ reqDeath' = {}
    /\ ti' = ti + 1
    /\ UNCHANGED <<Dt, pc, nBg, mods, pregVars, rateVars>>

\* ------------------------------------------------------- rate resolution
\* np.digitize(x, bins) for ascending bins: the number of breakpoints <= x
Digitize(x, bins) == Cardinality({i \in 1..Len(bins) : bins[i] <= x})

\* values[k] of a numpy array of length n: a negative index counts from the end
PyIndex(k, n) == IF k < 0 THEN k + n ELSE k

\* binned_ages = np.digitize(age, s.index) - 1 (Deaths) and
\* age_bin_all = np.digitize(age, age_bins) - 1 (Pregnancy, PregnancyLite)
binned_ages(age, bins) == Digitize(age, bins) - 1

\* s.values[binned_ages]: the rate of the table that the index selects
TableRate(q) == q.vals[PyIndex(binned_ages(q.age, q.bins), Len(q.vals)) + 1]

\* Deaths.make_death_prob_fn for one agent, tabular death_rate_data
make_death_prob_fn(q) ==
    LET death_rate == TableRate(q)
        death_prob == death_rate * q.rel * q.dt
    IN Clip(death_prob, 0, ProbScale)

\* Pregnancy.make_fertility_prob_fn for one fecund, fertile agent, tabular
\* fertility_rate_data, nobody pregnant
make_fertility_prob_table(q) ==
    LET invalid_age == (q.age < MinAge) \/ (q.age > MaxAge)
        fertility_rate == TableRate(q)
        fertility_prob == IF invalid_age THEN 0 ELSE fertility_rate * q.rel * q.dt
    IN Clip(fertility_prob, 0, ProbScale)

\* PregnancyLite.time_varying_ASFR for one agent
time_varying_ASFR(q) ==
    LET ASFR == TableRate(q)
        p_conception == ASFR * q.rel * q.dt
    IN p_conception

Resolved(fn, q, prob) ==
    [fn    |-> fn,
     index |-> binned_ages(q.age, q.bins),
     bin   |-> PyIndex(binned_ages(q.age, q.bins), Len(q.vals)),
     prob  |-> prob]

\* Deaths hands make_death_prob_fn to its Bernoulli filter
ResolveDeathProb ==
    /\ pc = "rate"
    /\ res' = Resolved("deaths", query, make_death_prob_fn(query))
    /\ UNCHANGED <<Dt, ti, pc, people, reqDeath, nBg, query, pregVars, lifeVars>>

\* Pregnancy hands make_fertility_prob_fn to its Bernoulli filter
ResolveFertilityProb ==
    /\ pc = "rate"
    /\ res' = Resolved("pregnancy", query, make_fertility_prob_table(query))
    /\ UNCHANGED <<Dt, ti, pc, people, reqDeath, nBg, query, pregVars, lifeVars>>

\* PregnancyLite hands time_varying_ASFR to its Bernoulli filter
ResolveLiteProb ==
    /\ pc = "rate"
    /\ res' = Resolved("lite", query, time_varying_ASFR(query))
    /\ UNCHANGED <<Dt, ti, pc, people, reqDeath, nBg, query, pregVars, lifeVars>>

\* ------------------------------------------- fertility rate rescaling
\* age_bin_all = np.digitize(age, age_bins) - 1 for every eligible agent
age_bin_all(ppl, uids, bins) == [u \in uids |-> binned_ages(ppl.age[u], bins)]

\* v, c = np.unique(idx, return_counts=True); counts = np.zeros(n);
\* counts[v] = c.  An index -1 addresses the last bin; where the indices -1
\* and n-1 both occur the later assignment, that of n-1, stays.
BinCounts(idx, S, n) ==
    [b \in 0..(n - 1) |->
        LET direct  == Cardinality({u \in S : idx[u] = b})
            wrapped == Cardinality({u \in S : idx[u] = b - n})
        IN IF direct > 0 THEN direct ELSE wrapped]

\* faulty variant: np.divide writes 0 where the denominator is not positive
Divide_Zeroed(num_to_make, new_denom, out) ==
    IF new_denom > 0 THEN [num |-> num_to_make, den |-> new_denom]
    ELSE [num |-> 0, den |-> 1]

\* np.divide(num_to_make, new_denom, where=new_denom>0, out=new_rate) for one
\* bin: the quotient where the denominator is positive, the value that out
\* held elsewhere.  A rate is the fraction num / den.
Divide(num_to_make, new_denom, out) ==
    IF new_denom > 0 THEN [num |-> num_to_make, den |-> new_denom]
    ELSE out

\* Pregnancy.make_fertility_prob_fn, tabular fertility_rate_data: the rates
\* per bin, rescaled to the women who are not pregnant when anyone is pregnant
new_rate(q, ppl, m, uids) ==
    LET n        == Len(q.bins)
        table    == [b \in 0..(n - 1) |-> [num |-> q.vals[b + 1], den |-> 1]]
        pregnant == {u \in AUIDs(ppl) : m.pregnant[u]}
        age_counts == BinCounts(age_bin_all(ppl, uids, q.bins), uids, n)
        pregnant_age_counts == BinCounts(age_bin_all(ppl, pregnant, q.bins), pregnant, n)
    IN [rate  |-> IF pregnant = {} THEN table
                  ELSE [b \in 0..(n - 1) |->
                          Divide(q.vals[b + 1] * age_counts[b],
                                 age_counts[b] - pregnant_age_counts[b],
                                 table[b])],
        count |-> age_counts,
        denom |-> [b \in 0..(n - 1) |-> age_counts[b] - pregnant_age_counts[b]]]

\* the conception probability of agent u for the rates per bin
fertility_prob(q, ppl, m, uids, rate, u) ==
    LET n == Len(q.bins)
        fertility_rate == rate[PyIndex(age_bin_all(ppl, uids, q.bins)[u], n)]
        invalid_age == (ppl.age[u] < MinAge) \/ (ppl.age[u] > MaxAge)
    IN IF ~m.fecund[u] \/ m.infertile[u] \/ invalid_age THEN 0
       ELSE Clip((fertility_rate.num * q.rel * q.dt) \div fertility_rate.den,
                 0, ProbScale)

\* p_fertility.filter(eligible_uids) evaluates make_fertility_prob_fn over
\* the female agents
ResolveRescaledRate ==
    /\ pc = "fert"
    /\ LET uids == {u \in AUIDs(people) : people.female[u]}
           nr   == new_rate(query, people, mod, uids)
       IN res' = [fn    |-> "rescaled",
                  rate  |-> nr.rate,
                  count |-> nr.count,
                  denom |-> nr.denom,
                  prob  |-> [u \in uids |->
                               fertility_prob(query, people, mod, uids, nr.rate, u)]]
    /\ UNCHANGED <<Dt, ti, pc, people, reqDeath, nBg, query, pregVars, lifeVars>>

\* ------------------------------------------------- year-indexed rate tables
\* Calendar time is counted in quarters from the table's reference year, so a
\* table year y is the time y * TimeUnit.
Abs(x) == IF x < 0 THEN -x ELSE x

\* sc.findnearest(series, value): the index (from 1) of the entry nearest to
\* value, the first one when two are equally near (argmin of |series - value|)
findnearest(series, value) ==
    CHOOSE i \in 1..Len(series) :
        \A j \in 1..Len(series) :
            \/ Abs(series[i] - value) < Abs(series[j] - value)
            \/ (Abs(series[i] - value) = Abs(series[j] - value) /\ i <= j)

\* Deaths.make_death_prob_fn and Births.get_births (birth_rate a series by
\* year): the row of the nearest available year to sim.now
nearest_year_rate(tbl, now) ==
    LET year_ind == findnearest([i \in 1..Len(tbl.years) |-> tbl.years[i] * TimeUnit], now)
    IN [year |-> tbl.years[year_ind], rate |-> tbl.vals[year_ind]]

\* Pregnancy.standardize_fertility_data: reindex to np.arange(first year,
\* last year + 1) and interpolate() linearly
standardize_fertility_data(tbl) ==
    LET first == tbl.years[1]
        last  == tbl.years[Len(tbl.years)]
        lo(y) == CHOOSE i \in 1..(Len(tbl.years) - 1) :
                     tbl.years[i] <= y /\ y <= tbl.years[i + 1]
        val(y) == LET i == lo(y)
                  IN tbl.vals[i] + ((tbl.vals[i + 1] - tbl.vals[i]) * (y - tbl.years[i]))
                                      \div (tbl.years[i + 1] - tbl.years[i])
    IN [years |-> [k \in 1..(last - first + 1) |-> first + k - 1],
        vals  |-> [k \in 1..(last - first + 1) |-> val(first + k - 1)]]

\* faulty variant: the fertility table is queried at sim.now
fertility_query_time_Now(now) == now

\* the time at which Pregnancy queries its table: sim.now - dur_pregnancy
fertility_query_time(now) == now - DurPregnancy

\* Pregnancy.make_fertility_prob_fn: the row of the standardized table nearest
\* to sim.now - dur_pregnancy
fertility_year_rate(tbl, now) ==
    nearest_year_rate(standardize_fertility_data(tbl), fertility_query_time(now))

ResolveDeathYear ==
    /\ pc = "year"
    /\ res' = [fn |-> "deaths", qtime |-> query.now,
               row |-> nearest_year_rate(query.tbl, query.now)]
    /\ UNCHANGED <<Dt, ti, pc, people, reqDeath, nBg, query, pregVars, lifeVars>>

ResolveBirthYear ==
    /\ pc = "year"
    /\ res' = [fn |-> "births", qtime |-> query.now,
               row |-> nearest_year_rate(query.tbl, query.now)]
    /\ UNCHANGED <<Dt, ti, pc, people, reqDeath, nBg, query, pregVars, lifeVars>>

ResolveFertilityYear ==
    /\ pc = "year"
    /\ res' = [fn |-> "pregnancy", qtime |-> fertility_query_time(query.now),
               row |-> fertility_year_rate(query.tbl, query.now)]
    /\ UNCHANGED <<Dt, ti, pc, people, reqDeath, nBg, query, pregVars, lifeVars>>

\* ------------------------------------------------------- Module.update_pars
\* the parameters Births declares with define_pars, and the module attributes
\* update_pars pops after them
DeclaredPars == {"birth_rate", "rel_birth", "units"}
ModuleAttrs == {"name", "label", "unit", "dt"}

\* faulty variant: only one of the remaining keys is reported
update_pars_FirstOnly(declared, pars, kwargs) ==
    LET merged    == pars \cup kwargs
        matches   == merged \cap declared
        remaining == (merged \ matches) \ ModuleAttrs
        first     == IF remaining = {} THEN {}
                     ELSE {CHOOSE k \in remaining : TRUE}
    IN [matches |-> matches, attrs |-> merged \cap ModuleAttrs,
        raised |-> remaining # {},
        count |-> Cardinality(first), keys |-> first]

\* faulty variant: the remaining keys are checked before anything is written
update_pars_CheckFirst(declared, pars, kwargs) ==
    LET merged    == pars \cup kwargs
        matches   == merged \cap declared
        remaining == (merged \ matches) \ ModuleAttrs
    IN [matches |-> IF remaining # {} THEN {} ELSE matches,
        attrs |-> IF remaining # {} THEN {} ELSE merged \cap ModuleAttrs,
        raised |-> remaining # {},
        count |-> Cardinality(remaining), keys |-> remaining]

\* update_pars on the keys of pars and kwargs: the matching keys update
\* self.pars (matches), name, label, unit and dt are popped and given to
\* set_metadata and set_time_pars (attrs), and then any remaining key raises
\* ValueError with len(pars) and the joined remaining keys
update_pars(declared, pars, kwargs) ==
    LET merged    == pars \cup kwargs
        matches   == merged \cap declared
        remaining == (merged \ matches) \ ModuleAttrs
    IN [matches |-> matches, attrs |-> merged \cap ModuleAttrs,
        raised |-> remaining # {},
        count |-> Cardinality(remaining), keys |-> remaining]

UpdatePars ==
    /\ pc = "pars"
    /\ res' = [fn |-> "update_pars"] @@ update_pars(DeclaredPars, query.pars, query.kwargs)
    /\ UNCHANGED <<Dt, ti, pc, people, reqDeath, nBg, query, pregVars, lifeVars>>

\* ------------------------------------------------------- finalize (crude rates)
\* 1/units: the rates are reported per 1000
PerUnit == 1000

\* the values an element of a freshly allocated numpy array can hold
Uninitialized == {0, 1, -7}

\* 1/units * np.divide(new / dt_year, n_alive, where=n_alive>0) for one time
\* index, as a fraction: np.divide is given no out array, so where the
\* condition is false the element of the allocated result is left
\* uninitialized (garbage is that element)
crude_rate(new, n_alive, dt, garbage) ==
    IF n_alive > 0
    THEN [num |-> PerUnit * new * TimeUnit, den |-> dt * n_alive]
    ELSE [num |-> PerUnit * garbage, den |-> 1]

\* the series over all time indices; garbage gives the content of the
\* allocated array
crude_rates(q, garbage) ==
    [i \in 1..Len(q.new) |-> crude_rate(q.new[i], q.n_alive[i], q.dt, garbage[i])]

\* Births.finalize: results.cbr[:] = ...
FinalizeBirths ==
    /\ pc = "results"
    /\ \E garbage \in [1..Len(query.new) -> Uninitialized] :
          res' = [fn |-> "births.cbr", rate |-> crude_rates(query, garbage)]
    /\ UNCHANGED <<Dt, ti, pc, people, reqDeath, nBg, query, pregVars, lifeVars>>

\* Deaths.finalize: results.cmr[:] = ...
FinalizeDeaths ==
    /\ pc = "results"
    /\ \E garbage \in [1..Len(query.new) -> Uninitialized] :
          res' = [fn |-> "deaths.cmr", rate |-> crude_rates(query, garbage)]
    /\ UNCHANGED <<Dt, ti, pc, people, reqDeath, nBg, query, pregVars, lifeVars>>

\* Pregnancy.finalize: results['cbr'] = ... of results['births']
FinalizePregnancy ==
    /\ pc = "results"
    /\ \E garbage \in [1..Len(query.new) -> Uninitialized] :
          res' = [fn |-> "pregnancy.cbr", rate |-> crude_rates(query, garbage)]
    /\ UNCHANGED <<Dt, ti, pc, people, reqDeath, nBg, query, pregVars, lifeVars>>

\* --------------------------------------------------------- standardize_data
\* the values of metadata.data_cols
DataCols == {"Time", "AgeGrp", "Value"}

\* (data.index < 120).all() and (data.index > 1900).all()
AllAges(index) == \A x \in index : x < 120
AllYears(index) == \A x \in index : x > 1900

\* standardize_data(data, metadata): the result is an error or the returned
\* value, a DataFrame (given by its columns) or the number itself.  In the
\* dict branch the error message is built but not raised, and
\* pd.DataFrame(data) is returned
standardize_data(data) ==
    CASE data.type = "DataFrame" ->
            IF ~(DataCols \subseteq data.cols)
            THEN [raised |-> TRUE, out |-> "none", cols |-> {}, value |-> 0]
            ELSE [raised |-> FALSE, out |-> "DataFrame", cols |-> data.cols, value |-> 0]
      [] data.type = "Series" ->
            IF AllAges(data.index) \/ AllYears(data.index)
            THEN [raised |-> FALSE, out |-> "DataFrame", cols |-> DataCols \cup {"sex"},
                  value |-> 0]
            ELSE [raised |-> TRUE, out |-> "none", cols |-> {}, value |-> 0]
      [] data.type = "dict" ->
            [raised |-> FALSE, out |-> "DataFrame", cols |-> data.cols, value |-> 0]
      [] data.type = "number" ->
            [raised |-> FALSE, out |-> "number", cols |-> {}, value |-> data.value]
      [] OTHER ->
            [raised |-> TRUE, out |-> "none", cols |-> {}, value |-> 0]

StandardizeData ==
    /\ pc = "data"
    /\ res' = [fn |-> "standardize_data"] @@ standardize_data(query)
    /\ UNCHANGED <<Dt, ti, pc, people, reqDeath, nBg, query, pregVars, lifeVars>>

\* ------------------------------------------------------- Pregnancy.init_pre
\* init_pre links the sim, standardizes the fertility data (a number is left
\* as it is), sets p_fertility and choose_slots.  It does not read
\* sim.networks
PregnancyInitPre ==
    /\ pc = "init" /\ err = "none"
    /\ mod' = [mod EXCEPT !.fertility_rate_data = FertilityRate]
    /\ pc' = "sched"
    /\ UNCHANGED <<lifeVars, rateVars>>
    /\ UNCHANGED <<Dt, burnin, pNeonatal, ti, people, networks, reqDeath, err,
                   nBg, lastOp, updTis, lastDead, endStatus>>

\* ------------------------------------------------------------ PregnancyLite
\* the states of PregnancyLite (add_states) and its counters
InitLiteMod ==
    [pregnant      |-> [u \in UIDs |-> FALSE],
     postpartum    |-> [u \in UIDs |-> FALSE],
     child_uid     |-> [u \in UIDs |-> NaN],
     ti_delivery   |-> [u \in UIDs |-> NaN],
     ti_postpartum |-> [u \in UIDs |-> NaN],
     n_pregnancies |-> 0,
     n_births      |-> 0]

\* PregnancyLite.update_states: deliveries, then the postpartum exit
lite_update_states(m, ppl, t) ==
    LET now == t * Dt
        deliveries == {u \in AUIDs(ppl) : m.pregnant[u] /\ Leq(m.ti_delivery[u], now)}
        m1 == [m EXCEPT !.n_births   = Cardinality(deliveries),
                        !.pregnant   = [u \in UIDs |-> IF u \in deliveries THEN FALSE ELSE @[u]],
                        !.postpartum = [u \in UIDs |-> IF u \in deliveries THEN TRUE ELSE @[u]]]
        postpartum == {u \in AUIDs(ppl) : m1.postpartum[u] /\ Leq(m1.ti_postpartum[u], now)}
    IN [m1 EXCEPT !.postpartum = [u \in UIDs |-> IF u \in postpartum THEN FALSE ELSE @[u]],
                  !.child_uid  = [u \in UIDs |-> IF u \in postpartum THEN NaN ELSE @[u]]]

\* PregnancyLite.make_pregnancies: eligible_uids
lite_eligible_uids(m, ppl) ==
    {u \in AUIDs(ppl) : /\ ppl.female[u] /\ ~m.pregnant[u] /\ ~m.postpartum[u]
                        /\ ppl.age[u] >= MinAge /\ ppl.age[u] < MaxAge}

\* PregnancyLite.set_prognoses
lite_set_prognoses(m, uids, t, durs) ==
    LET now == t * Dt
    IN [m EXCEPT
          !.pregnant      = [u \in UIDs |-> IF u \in uids THEN TRUE ELSE @[u]],
          !.ti_delivery   = [u \in UIDs |-> IF u \in uids THEN now + DurPregnancy ELSE @[u]],
          !.ti_postpartum = [u \in UIDs |-> IF u \in uids
                                            THEN now + DurPregnancy + durs[u] ELSE @[u]]]

\* faulty variant: make_embryos adds the prenatal pairs as the full module does
lite_make_embryos_networks_WithPairs(nw, ppl, conceive_uids, t) ==
    make_embryos_networks(nw, ppl, conceive_uids, t)

\* PregnancyLite.make_embryos on sim.networks: no layer is read or written
lite_make_embryos_networks(nw, ppl, conceive_uids, t) == nw

\* PregnancyLite.do_update at time index t; the draws are those of
\* p_fertility.filter, dur_postpartum.rvs and sex_ratio.rvs
LiteDoUpdate(t) ==
    LET m1 == lite_update_states(mod, people, t)
    IN \E conceive_uids \in SUBSET lite_eligible_uids(m1, people) :
          /\ people.n + Cardinality(conceive_uids) <= MaxAgents
          /\ \E durs \in [conceive_uids -> DurPostSet] :
             \E girls \in BernoulliFilter(conceive_uids, [u \in conceive_uids |-> SexRatio]) :
                LET m2 == IF conceive_uids # {}
                          THEN lite_set_prognoses(m1, conceive_uids, t,
                                  [u \in UIDs |-> IF u \in conceive_uids THEN durs[u] ELSE NaN])
                          ELSE m1
                    m3 == [m2 EXCEPT !.n_pregnancies = Cardinality(conceive_uids)]
                IN /\ mod' = make_embryos_mod(m3, people, conceive_uids)
                   /\ people' = make_embryos_people(people, conceive_uids, t, girls)
                   /\ networks' = lite_make_embryos_networks(networks, people, conceive_uids, t)
                   /\ UNCHANGED <<reqDeath, err>>

\* PregnancyLite.update is entered
LiteUpdateEnter ==
    /\ pc = "lite_sched"
    /\ lastOp' = "update"
    /\ updTis' = <<>>
    /\ IF ti = 0 /\ burnin /\ BurninStart < 0
       THEN ti' = BurninStart /\ pc' = "lite_replay"
       ELSE ti' = ti /\ pc' = "lite_final"
    /\ UNCHANGED <<lifeVars, rateVars>>
    /\ UNCHANGED <<Dt, burnin, pNeonatal, people, mod, networks, reqDeath, err,
                   nBg, lastDead, endStatus>>

\* one iteration of the replay loop of PregnancyLite.update
LiteReplay ==
    /\ pc = "lite_replay"
    /\ LiteDoUpdate(ti)
    /\ updTis' = Append(updTis, ti)
    /\ ti' = ti + 1
    /\ pc' = IF ti + 1 = 0 THEN "lite_final" ELSE "lite_replay"
    /\ UNCHANGED <<lifeVars, rateVars>>
    /\ UNCHANGED <<Dt, burnin, pNeonatal, nBg, lastOp, lastDead, endStatus>>

\* the do_update of the current step, which ends PregnancyLite.update
LiteUpdateFinal ==
    /\ pc = "lite_final"
    /\ LiteDoUpdate(ti)
    /\ updTis' = Append(updTis, ti)
    /\ pc' = "lite_deaths"
    /\ UNCHANGED <<lifeVars, rateVars>>
    /\ UNCHANGED <<Dt, burnin, pNeonatal, ti, nBg, lastOp, lastDead, endStatus>>

\* the sim removes the agents whose death was requested and those the Deaths
\* module selected; other modules submit their requests for the next removal
LiteRemove ==
    /\ pc = "lite_deaths"
    /\ \E bg \in SUBSET AUIDs(people) :
          /\ Cardinality(bg) <= 1
          /\ nBg + Cardinality(bg) <= MaxBgDeaths
          /\ LET dead == bg \cup (reqDeath \cap AUIDs(people))
             IN /\ people' = [people EXCEPT !.alive = [u \in UIDs |->
                                 IF u \in dead THEN FALSE ELSE @[u]]]
                /\ lastDead' = dead
                /\ \E others \in SUBSET (AUIDs(people) \ dead) :
                      /\ Cardinality(others) <= 1
                      /\ reqDeath' = others
          /\ nBg' = nBg + Cardinality(bg)
    /\ pc' = "lite_callback"
    /\ UNCHANGED <<lifeVars, rateVars>>
    /\ UNCHANGED <<Dt, burnin, pNeonatal, ti, mod, networks, err, lastOp, updTis,
                   endStatus>>

\* PregnancyLite.update_death(death_uids)
lite_update_death(m, ppl, death_uids) ==
    LET is_prenatal == {d \in death_uids : ppl.age[d] < 0}
        mother_uids == {ppl.parent[d] : d \in is_prenatal}
    IN [m EXCEPT
          !.pregnant      = [u \in UIDs |-> IF u \in mother_uids THEN FALSE ELSE @[u]],
          !.postpartum    = [u \in UIDs |-> IF u \in mother_uids THEN FALSE ELSE @[u]],
          !.child_uid     = [u \in UIDs |-> IF u \in mother_uids THEN NaN ELSE @[u]],
          !.ti_delivery   = [u \in UIDs |-> IF u \in mother_uids THEN NaN ELSE @[u]],
          !.ti_postpartum = [u \in UIDs |-> IF u \in mother_uids THEN NaN ELSE @[u]]]

LiteUpdateDeath ==
    /\ pc = "lite_callback"
    /\ mod' = lite_update_death(mod, people, lastDead)
    /\ pc' = "lite_advance"
    /\ UNCHANGED <<lifeVars, rateVars>>
    /\ UNCHANGED <<Dt, burnin, pNeonatal, ti, people, networks, reqDeath, err, nBg,
                   lastOp, updTis, lastDead, endStatus>>

\* the end of the timestep: the agents age by dt and the clock advances
LiteFinishStep ==
    /\ pc = "lite_advance"
    /\ ti < MaxTi
    /\ people' = [people EXCEPT !.age = [u \in UIDs |->
                     IF u \in AUIDs(people) THEN @[u] + Dt ELSE @[u]]]
    /\ ti' = ti + 1
    /\ pc' = "lite_sched"
    /\ lastDead' = {}
    /\ UNCHANGED <<lifeVars, rateVars>>
    /\ UNCHANGED <<Dt, burnin, pNeonatal, mod, networks, reqDeath, err, nBg,
                   lastOp, updTis, endStatus>>

\* ------------------------------------- Deaths.make_death_prob_fn (vectorised)
\* the call death_prob_fn(self, sim, uids): q.tabular tells a table from a
\* number (sc.isnumber(drd)); with a table the rates are read for the alive
\* agents in auids order and returned position by position for uids
death_prob_fn(q, ppl) ==
    IF ~q.tabular
    THEN [fn |-> "death_prob_fn", raised |-> FALSE,
          prob |-> [u \in q.uids |-> Clip(q.rate * q.rel * q.dt, 0, ProbScale)]]
    ELSE IF Cardinality(q.uids) # Cardinality(AUIDs(ppl))
    THEN [fn |-> "death_prob_fn", raised |-> TRUE, prob |-> <<>>]
    ELSE LET auids == SortedSeq(AUIDs(ppl))
         IN [fn |-> "death_prob_fn", raised |-> FALSE,
             prob |-> [u \in q.uids |->
                         make_death_prob_fn([age  |-> ppl.age[auids[Rank(u, q.uids)]],
                                             bins |-> q.bins, vals |-> q.vals,
                                             rel  |-> q.rel, dt |-> q.dt])]]

\* the probability function is called with a candidate set
DeathProbCall ==
    /\ pc = "deathfn"
    /\ res' = death_prob_fn(query, people)
    /\ UNCHANGED <<Dt, ti, pc, people, reqDeath, nBg, query, pregVars, lifeVars>>

\* ------------------------------------------- result series and finalize
\* the result series of a finished run: the new events and the alive count
\* per time index
NPts == 2
MaxCount == 2

\* a module declares in init_results the series new and cumulative with
\* scale = True and a rate with scale = False
\* np.cumsum
RECURSIVE SumTo(_, _)
SumTo(s, t) == IF t = 0 THEN 0 ELSE s[t] + SumTo(s, t - 1)

cumsum(s) == [t \in 1..Len(s) |-> SumTo(s, t)]

\* faulty variant: every series is multiplied, whatever its scale flag
finalize_results_All(r, pop_scale) ==
    [r EXCEPT !.new        = [t \in 1..Len(@) |-> @[t] * pop_scale],
              !.cumulative = [t \in 1..Len(@) |-> @[t] * pop_scale],
              !.rate       = [t \in 1..Len(@) |-> @[t] * pop_scale]]

\* Module.finalize_results: the series with scale = True are multiplied by
\* sim.pars.pop_scale
finalize_results(r, pop_scale) ==
    [r EXCEPT !.new        = [t \in 1..Len(@) |-> @[t] * pop_scale],
              !.cumulative = [t \in 1..Len(@) |-> @[t] * pop_scale]]

\* faulty variant: the cumulative series is a copy of new
demographics_finalize_Copy(r, q) ==
    LET r1 == finalize_results(r, q.pop_scale)
    IN [r1 EXCEPT !.finalized  = TRUE,
                  !.cumulative = r1.new,
                  !.rate       = [t \in 1..Len(r1.new) |->
                                    crude_rate(r1.new[t], q.n_alive[t], q.dt, 0).num]]

\* Births.finalize and Deaths.finalize: Module.finalize, then cumulative is
\* the running sum of new and the crude rate is recomputed (alive counts
\* positive, rate kept as the numerator over dt * n_alive)
demographics_finalize(r, q) ==
    LET r1 == finalize_results(r, q.pop_scale)
    IN [r1 EXCEPT !.finalized  = TRUE,
                  !.cumulative = cumsum(r1.new),
                  !.rate       = [t \in 1..Len(r1.new) |->
                                    crude_rate(r1.new[t], q.n_alive[t], q.dt, 0).num]]

\* one timestep of the module: step counts n events, update_results writes
\* the count at index ti, the clock advances
SeriesUpdateResults ==
    /\ pc = "series"
    /\ ~res.finalized
    /\ ti < NPts
    /\ \E n \in 0..MaxCount :
          res' = [res EXCEPT !.new[ti + 1] = n, !.raw[ti + 1] = n]
    /\ ti' = ti + 1
    /\ UNCHANGED <<Dt, pc, people, reqDeath, nBg, query, pregVars, lifeVars>>

\* Module.finalize of a module that does not override it
ModuleFinalize ==
    /\ pc = "series"
    /\ ~res.finalized
    /\ res' = [finalize_results(res, query.pop_scale) EXCEPT !.finalized = TRUE,
                                                              !.fn = "module"]
    /\ UNCHANGED <<Dt, ti, pc, people, reqDeath, nBg, query, pregVars, lifeVars>>

\* Births.finalize or Deaths.finalize
DemographicsFinalize ==
    /\ pc = "series"
    /\ ~res.finalized
    /\ \E M \in {"births", "deaths"} :
          res' = [demographics_finalize(res, query) EXCEPT !.fn = M]
    /\ UNCHANGED <<Dt, ti, pc, people, reqDeath, nBg, query, pregVars, lifeVars>>

\* ------------------------------------------------------------ embryo slots
\* slot_scale is kept in tenths
ScaleUnit == 10

\* Pregnancy.init_pre: the bounds given to ss.randint; int() truncates the
\* positive product
choose_slots(q) ==
    [low  |-> q.n_agents + 1,
     high |-> Max((q.slot_scale * q.n_agents) \div ScaleUnit, q.min_slots)]

\* make_embryos draws the slot of one embryo: choose_slots.rvs, an integer
\* of [low, high); the draw raises when that range is empty
ChooseSlot ==
    /\ pc = "slots"
    /\ LET b == choose_slots(query)
       IN IF b.low >= b.high
          THEN res' = [fn |-> "choose_slots", low |-> b.low, high |-> b.high,
                       raised |-> TRUE, slot |-> NaN]
          ELSE \E slot \in b.low .. (b.high - 1) :
                  res' = [fn |-> "choose_slots", low |-> b.low, high |-> b.high,
                          raised |-> FALSE, slot |-> slot]
    /\ UNCHANGED <<Dt, ti, pc, people, reqDeath, nBg, query, pregVars, lifeVars>>

\* ------------------------------------------------------------ ndict.append
\* an item given to append is None, an object (with or without the attribute
\* the container is keyed by, of the required type or not) or a dict; every
\* item is a record with the same fields
NoKey   == ""
NoAttr  == "no attribute"
NameKey == "name"
RequiredType == "Result"
None == [kind |-> "none", name |-> NoAttr, typ |-> "NoneType", items |-> <<>>]

\* hasattr(arg, self._name)
hasattr(arg) == arg.kind = "obj" /\ arg.name # NoAttr

\* self._name in arg, for a dict
HasNameKey(arg) == \E i \in 1..Len(arg.items) : arg.items[i].k = NameKey

\* self[key] = arg
SetItem(self, key, arg) ==
    [k \in (DOMAIN self) \cup {key} |-> IF k = key THEN arg ELSE self[k]]

\* faulty variant: every item passes the type check
check_type_Any(arg) == TRUE

\* ndict._check_type with a required type: TRUE when no TypeError is raised
check_type(arg) == arg.typ = RequiredType

\* ndict.append in strict mode: the container after the call and the error
\* raised; append_values is the loop over a dict that has no name key.
\* A dict is never of the required type, so the key arg[self._name] of a dict
\* with the name key is never used
RECURSIVE append(_, _, _)
RECURSIVE append_values(_, _, _)
append(self, arg, key) ==
    IF arg.kind = "none" THEN [self |-> self, raised |-> "none"]
    ELSE IF hasattr(arg) \/ (arg.kind = "dict" /\ HasNameKey(arg))
    THEN LET key1 == IF key # NoKey THEN key ELSE arg.name
         IN IF ~check_type(arg)
            THEN [self |-> self, raised |-> "TypeError"]
            ELSE [self |-> SetItem(self, key1, arg), raised |-> "none"]
    ELSE IF arg.kind = "dict"
    THEN append_values(self, arg.items, 1)
    ELSE [self |-> self, raised |-> "ValueError"]

append_values(self, items, i) ==
    IF i > Len(items) THEN [self |-> self, raised |-> "none"]
    ELSE LET r == append(self, items[i].v, items[i].k)
         IN IF r.raised # "none" THEN r
            ELSE append_values(r.self, items, i + 1)

NdictAppend ==
    /\ pc = "ndict"
    /\ res' = [fn |-> "append"] @@ append(query.self, query.arg, query.key)
    /\ UNCHANGED <<Dt, ti, pc, people, reqDeath, nBg, query, pregVars, lifeVars>>

\* ---------------------------------------------------------------------- Init
\* the network configurations: none, or a prenatal and a postnatal layer
NoNetworks == <<>>
VerticalNetworks ==
    << [prenatal |-> TRUE,  postnatal |-> FALSE, edges |-> <<>>],
       [prenatal |-> FALSE, postnatal |-> TRUE,  edges |-> <<>>] >>

InitPeople ==
    [n      |-> NAgents,
     alive  |-> [u \in UIDs |-> u < NAgents],
     age    |-> [u \in UIDs |-> IF u < NAgents THEN 80 + 40 * u ELSE 0],
     female |-> [u \in UIDs |-> u < NAgents],
     parent |-> [u \in UIDs |-> NaN]]

\* the defaults of define_states: fecund is True, the other flags False, the
\* FloatArr states nan
InitMod ==
    [infertile      |-> [u \in UIDs |-> FALSE],
     fecund         |-> [u \in UIDs |-> TRUE],
     pregnant       |-> [u \in UIDs |-> FALSE],
     postpartum     |-> [u \in UIDs |-> FALSE],
     child_uid      |-> [u \in UIDs |-> NaN],
     dur_postpartum |-> [u \in UIDs |-> NaN],
     ti_pregnant    |-> [u \in UIDs |-> NaN],
     ti_delivery    |-> [u \in UIDs |-> NaN],
     ti_postpartum  |-> [u \in UIDs |-> NaN],
     ti_dead        |-> [u \in UIDs |-> NaN],
     n_pregnancies  |-> 0,
     n_births       |-> 0,
     fertility_rate_data |-> FertilityRate]

\* rate tables: age breakpoints in quarters and one rate per bin
TableSet ==
    { [bins |-> <<0, 80, 160>>,  vals |-> <<100, 400, 900>>],
      [bins |-> <<60, 120, 204>>, vals |-> <<500, -200, 0>>] }

AgeSet == {-3, 0, 59, 60, 100, 200, 250}
RelSet == {1, 3}
QueryDtSet == {1, 4}  \* a quarter and a year

NoQuery == [age |-> 0, bins |-> <<0>>, vals |-> <<0>>, rel |-> 1, dt |-> 1]
NoRes   == [fn |-> "none", index |-> 0, bin |-> 0, prob |-> 0]

\* the Births and Deaths modules of a sim that has been initialized
ReadyModules ==
    [M \in ModuleNames |->
        [linked |-> TRUE, initialized |-> TRUE, finalized |-> FALSE, n |-> 0,
         new |-> [t \in 0..MaxTi |-> 0]]]

\* the state after construction and initialization, but for sim.networks
InitModule ==
    /\ Dt \in DtSet
    /\ burnin \in BOOLEAN
    /\ pNeonatal \in {0, ProbScale}
    /\ mods = ReadyModules
    /\ query = NoQuery
    /\ res = NoRes
    /\ ti = 0
    /\ pc = "sched"
    /\ people = InitPeople
    /\ mod = InitMod
    /\ reqDeath = {}
    /\ err = "none"
    /\ nBg = 0
    /\ lastOp = "none"
    /\ updTis = <<>>
    /\ lastDead = {}
    /\ endStatus = NoStatus

\* a sim without network layers
Init == InitModule /\ networks = NoNetworks

\* a sim with a prenatal and a postnatal layer
InitNet == InitModule /\ networks = VerticalNetworks

\* the timestep of a scheduler that calls update
Next ==
    \/ UpdateEnter
    \/ Replay
    \/ UpdateFinal
    \/ ResolveDeaths
    \/ FinishStep

\* the timestep of a scheduler that calls update or step
NextSched ==
    \/ Next
    \/ Step

Spec == Init /\ [][Next]_vars

\* the Births and the Deaths module from construction on; the calls come in
\* any order
InitLife ==
    /\ Dt \in DtSet
    /\ burnin = FALSE
    /\ pNeonatal = 0
    /\ networks = NoNetworks
    /\ ti = 0
    /\ pc = "life"
    /\ people = InitPeople
    /\ mod = InitMod
    /\ reqDeath = {}
    /\ err = "none"
    /\ nBg = 0
    /\ lastOp = "none"
    /\ updTis = <<>>
    /\ lastDead = {}
    /\ endStatus = NoStatus
    /\ mods = [M \in ModuleNames |-> NewModule]
    /\ query = NoQuery
    /\ res = NoRes

NextLife ==
    \/ \E M \in ModuleNames : InitPre(M)
    \/ \E M \in ModuleNames : InitPost(M)
    \/ BirthsStep
    \/ DeathsStep
    \/ \E M \in ModuleNames : UpdateResults(M)
    \/ \E M \in ModuleNames : Finalize(M)
    \/ LifeFinishStep

SpecLife == InitLife /\ [][NextLife]_vars

\* one rate query and the probability functions applied to it
InitRate ==
    /\ Dt = 1
    /\ burnin = FALSE
    /\ pNeonatal = 0
    /\ networks = NoNetworks
    /\ ti = 0
    /\ pc = "rate"
    /\ people = InitPeople
    /\ mod = InitMod
    /\ reqDeath = {}
    /\ err = "none"
    /\ nBg = 0
    /\ lastOp = "none"
    /\ updTis = <<>>
    /\ lastDead = {}
    /\ endStatus = NoStatus
    /\ mods = ReadyModules
    /\ \E t \in TableSet, a \in AgeSet, r \in RelSet, d \in QueryDtSet :
          query = [age |-> a, bins |-> t.bins, vals |-> t.vals, rel |-> r, dt |-> d]
    /\ res = NoRes

NextRate ==
    \/ ResolveDeathProb
    \/ ResolveFertilityProb
    \/ ResolveLiteProb

SpecRate == InitRate /\ [][NextRate]_vars

\* a population of women and female embryos, some of the women pregnant, and
\* a fertility table
NFert == 3
FertAgeSet == {-1, 70, 170}

InitFert ==
    /\ Dt = 1
    /\ burnin = FALSE
    /\ pNeonatal = 0
    /\ networks = NoNetworks
    /\ ti = 0
    /\ pc = "fert"
    /\ \E age \in [0..(NFert - 1) -> FertAgeSet] :
       \E preg \in SUBSET {u \in 0..(NFert - 1) : age[u] >= MinAge} :
          /\ people = [n      |-> NFert,
                       alive  |-> [u \in UIDs |-> u < NFert],
                       age    |-> [u \in UIDs |-> IF u < NFert THEN age[u] ELSE 0],
                       female |-> [u \in UIDs |-> u < NFert],
                       parent |-> [u \in UIDs |-> NaN]]
          /\ mod = [InitMod EXCEPT
                      !.pregnant = [u \in UIDs |-> u \in preg],
                      !.fecund   = [u \in UIDs |-> u \notin preg]]
    /\ reqDeath = {}
    /\ err = "none"
    /\ nBg = 0
    /\ lastOp = "none"
    /\ updTis = <<>>
    /\ lastDead = {}
    /\ endStatus = NoStatus
    /\ mods = ReadyModules
    /\ \E t \in TableSet, r \in RelSet, d \in QueryDtSet :
          query = [age |-> 0, bins |-> t.bins, vals |-> t.vals, rel |-> r, dt |-> d]
    /\ res = NoRes

NextFert == ResolveRescaledRate

SpecFert == InitFert /\ [][NextFert]_vars

\* a population with one eligible woman (the other agent is a man or a woman
\* above max_age) and a fertility rate that makes her conception certain
InitOne ==
    /\ Dt \in DtSet
    /\ burnin \in BOOLEAN
    /\ pNeonatal \in {0, ProbScale}
    /\ mods = ReadyModules
    /\ query = NoQuery
    /\ res = NoRes
    /\ ti = 0
    /\ pc = "sched"
    /\ \E f \in BOOLEAN :
          people = [InitPeople EXCEPT !.female[1] = f, !.age[1] = MaxAge + 40]
    /\ mod = [InitMod EXCEPT !.fertility_rate_data = ProbScale]
    /\ reqDeath = {}
    /\ err = "none"
    /\ nBg = 0
    /\ lastOp = "none"
    /\ updTis = <<>>
    /\ lastDead = {}
    /\ endStatus = NoStatus
    /\ networks = NoNetworks

SpecOne == InitOne /\ [][Next]_vars

\* the same population under a scheduler that runs update at every step and
\* keeps stepping
SpecLive == InitOne /\ [][Next]_vars /\ WF_vars(Next)

\* year-indexed tables (years counted from the reference year) and the query
\* times, in quarters
YearTableSet ==
    { [years |-> <<0, 5, 10>>, vals |-> <<100, 200, 700>>],
      [years |-> <<0, 2, 10>>, vals |-> <<800, 400, 0>>] }
FirstNow == -6
LastNow == 46

InitYear ==
    /\ Dt = 1
    /\ burnin = FALSE
    /\ pNeonatal = 0
    /\ networks = NoNetworks
    /\ ti = 0
    /\ pc = "year"
    /\ people = InitPeople
    /\ mod = InitMod
    /\ reqDeath = {}
    /\ err = "none"
    /\ nBg = 0
    /\ lastOp = "none"
    /\ updTis = <<>>
    /\ lastDead = {}
    /\ endStatus = NoStatus
    /\ mods = ReadyModules
    /\ \E t \in YearTableSet, now \in FirstNow..LastNow : query = [tbl |-> t, now |-> now]
    /\ res = NoRes

NextYear ==
    \/ ResolveDeathYear
    \/ ResolveBirthYear
    \/ ResolveFertilityYear

SpecYear == InitYear /\ [][NextYear]_vars

\* the keys a caller passes in pars and in the keyword arguments
ParKeySet == {"birth_rate", "rel_birth", "name", "dt", "foo", "bar"}
KwargKeySet == {"units", "label", "unit", "foo", "baz"}

InitPars ==
    /\ Dt = 1
    /\ burnin = FALSE
    /\ pNeonatal = 0
    /\ networks = NoNetworks
    /\ ti = 0
    /\ pc = "pars"
    /\ people = InitPeople
    /\ mod = InitMod
    /\ reqDeath = {}
    /\ err = "none"
    /\ nBg = 0
    /\ lastOp = "none"
    /\ updTis = <<>>
    /\ lastDead = {}
    /\ endStatus = NoStatus
    /\ mods = [M \in ModuleNames |-> NewModule]
    /\ \E p \in SUBSET ParKeySet, k \in SUBSET KwargKeySet : query = [pars |-> p, kwargs |-> k]
    /\ res = NoRes

NextPars == UpdatePars

SpecPars == InitPars /\ [][NextPars]_vars


InitResults ==
    /\ Dt = 1
    /\ burnin = FALSE
    /\ pNeonatal = 0
    /\ networks = NoNetworks
    /\ ti = 0
    /\ pc = "results"
    /\ people = InitPeople
    /\ mod = InitMod
    /\ reqDeath = {}
    /\ err = "none"
    /\ nBg = 0
    /\ lastOp = "none"
    /\ updTis = <<>>
    /\ lastDead = {}
    /\ endStatus = NoStatus
    /\ mods = ReadyModules
    /\ \E new \in [1..NPts -> 0..MaxCount], n_alive \in [1..NPts -> 0..MaxCount],
          dt \in QueryDtSet :
          query = [new |-> new, n_alive |-> n_alive, dt |-> dt]
    /\ res = NoRes

NextResults ==
    \/ FinalizeBirths
    \/ FinalizeDeaths
    \/ FinalizePregnancy

SpecResults == InitResults /\ [][NextResults]_vars

\* a prenatal layer and two postnatal layers
TwoPostnatalNetworks ==
    << [prenatal |-> TRUE,  postnatal |-> FALSE, edges |-> <<>>],
       [prenatal |-> FALSE, postnatal |-> TRUE,  edges |-> <<>>],
       [prenatal |-> FALSE, postnatal |-> TRUE,  edges |-> <<>>] >>

InitNet2 == InitModule /\ networks = TwoPostnatalNetworks

SpecNet2 == InitNet2 /\ [][Next]_vars

\* ages around the ends of the fertility window; agent 1 is a man or a woman,
\* infertile or not; every conception probability that is not zeroed is 1
AgeEdgeSet == {MinAge - 2, MinAge, MaxAge - 2, MaxAge, MaxAge + 1}

InitWindow ==
    /\ Dt \in DtSet
    /\ burnin \in BOOLEAN
    /\ pNeonatal = 0
    /\ mods = ReadyModules
    /\ query = NoQuery
    /\ res = NoRes
    /\ ti = 0
    /\ pc = "sched"
    /\ \E f \in BOOLEAN, a \in AgeEdgeSet :
          people = [InitPeople EXCEPT !.female[1] = f, !.age[0] = a]
    /\ \E i \in BOOLEAN :
          mod = [InitMod EXCEPT !.fertility_rate_data = ProbScale, !.infertile[1] = i]
    /\ reqDeath = {}
    /\ err = "none"
    /\ nBg = 0
    /\ lastOp = "none"
    /\ updTis = <<>>
    /\ lastDead = {}
    /\ endStatus = NoStatus
    /\ networks = NoNetworks

SpecWindow == InitWindow /\ [][Next]_vars

\* the data handed to standardize_data: its type, the columns or keys it
\* has, the values of its index and, for a number, its value
DataTypeSet == {"DataFrame", "Series", "dict", "number", "str"}
ColumnSet == {"Time", "AgeGrp", "Value", "Notes"}
IndexSet == {0, 119, 120, 1900, 1950}
NumberSet == {0, 30}

InitData ==
    /\ Dt = 1
    /\ burnin = FALSE
    /\ pNeonatal = 0
    /\ networks = NoNetworks
    /\ ti = 0
    /\ pc = "data"
    /\ people = InitPeople
    /\ mod = InitMod
    /\ reqDeath = {}
    /\ err = "none"
    /\ nBg = 0
    /\ lastOp = "none"
    /\ updTis = <<>>
    /\ lastDead = {}
    /\ endStatus = NoStatus
    /\ mods = [M \in ModuleNames |-> NewModule]
    /\ \E t \in DataTypeSet, c \in SUBSET ColumnSet, i \in SUBSET IndexSet, v \in NumberSet :
          /\ t \in {"DataFrame", "dict"} \/ c = {}
          /\ t = "Series" \/ i = {}
          /\ t = "number" \/ v = 0
          /\ query = [type |-> t, cols |-> c, index |-> i, value |-> v]
    /\ res = NoRes

NextData == StandardizeData

SpecData == InitData /\ [][NextData]_vars

\* network layers by tag
PrenatalLayer == [prenatal |-> TRUE, postnatal |-> FALSE, edges |-> <<>>]
PostnatalLayer == [prenatal |-> FALSE, postnatal |-> TRUE, edges |-> <<>>]

\* the configurations of sim.networks a Pregnancy module can be created
\* with: no, one or two prenatal layers next to a postnatal layer
NetworkConfigSet ==
    { <<PostnatalLayer>>,
      <<PrenatalLayer, PostnatalLayer>>,
      <<PrenatalLayer, PrenatalLayer, PostnatalLayer>> }

\* a Pregnancy module that has been constructed and not yet initialized:
\* p_fertility is the placeholder with p = 0
InitConstructed ==
    /\ Dt = 1
    /\ burnin = TRUE
    /\ pNeonatal = 0
    /\ mods = ReadyModules
    /\ query = NoQuery
    /\ res = NoRes
    /\ ti = 0
    /\ pc = "init"
    /\ people = InitPeople
    /\ mod = [InitMod EXCEPT !.fertility_rate_data = 0]
    /\ reqDeath = {}
    /\ err = "none"
    /\ nBg = 0
    /\ lastOp = "none"
    /\ updTis = <<>>
    /\ lastDead = {}
    /\ endStatus = NoStatus
    /\ networks \in NetworkConfigSet

NextInit ==
    \/ PregnancyInitPre
    \/ Next

SpecInit == InitConstructed /\ [][NextInit]_vars

\* a PregnancyLite module in a sim that has a prenatal and a postnatal layer
InitLite ==
    /\ Dt \in DtSet
    /\ burnin \in BOOLEAN
    /\ pNeonatal = 0
    /\ mods = ReadyModules
    /\ query = NoQuery
    /\ res = NoRes
    /\ ti = 0
    /\ pc = "lite_sched"
    /\ people = InitPeople
    /\ mod = InitLiteMod
    /\ reqDeath = {}
    /\ err = "none"
    /\ nBg = 0
    /\ lastOp = "none"
    /\ updTis = <<>>
    /\ lastDead = {}
    /\ endStatus = NoStatus
    /\ networks = VerticalNetworks

NextLite ==
    \/ LiteUpdateEnter
    \/ LiteReplay
    \/ LiteUpdateFinal
    \/ LiteRemove
    \/ LiteUpdateDeath
    \/ LiteFinishStep

SpecLite == InitLite /\ [][NextLite]_vars

\* three agents of ages 20, 30 and 0 years, the last two alive or not, and a
\* call of the death probability function with any candidate set
NCandidates == 3

InitDeathFn ==
    /\ Dt = 1
    /\ burnin = FALSE
    /\ pNeonatal = 0
    /\ networks = NoNetworks
    /\ ti = 0
    /\ pc = "deathfn"
    /\ \E a1, a2 \in BOOLEAN :
          people = [InitPeople EXCEPT !.n = NCandidates,
                                      !.alive[1] = a1, !.alive[2] = a2]
    /\ mod = InitMod
    /\ reqDeath = {}
    /\ err = "none"
    /\ nBg = 0
    /\ lastOp = "none"
    /\ updTis = <<>>
    /\ lastDead = {}
    /\ endStatus = NoStatus
    /\ mods = ReadyModules
    /\ \E uids \in SUBSET (0..(NCandidates - 1)), tab \in BOOLEAN, t \in TableSet,
          d \in QueryDtSet :
          query = [uids |-> uids, tabular |-> tab, bins |-> t.bins, vals |-> t.vals,
                   rate |-> t.vals[1], rel |-> 1, dt |-> d]
    /\ res = NoRes

NextDeathFn == DeathProbCall

SpecDeathFn == InitDeathFn /\ [][NextDeathFn]_vars

\* sim.pars.pop_scale
PopScaleSet == {1, 2, 3}

\* a module after init_results: the counts are zero, the unscaled series
\* holds what the module keeps in it; raw keeps the counts as update_results
\* wrote them
InitSeries ==
    /\ Dt = 1
    /\ burnin = FALSE
    /\ pNeonatal = 0
    /\ networks = NoNetworks
    /\ ti = 0
    /\ pc = "series"
    /\ people = InitPeople
    /\ mod = InitMod
    /\ reqDeath = {}
    /\ err = "none"
    /\ nBg = 0
    /\ lastOp = "none"
    /\ updTis = <<>>
    /\ lastDead = {}
    /\ endStatus = NoStatus
    /\ mods = ReadyModules
    /\ \E p \in PopScaleSet, r0 \in {0, 5} :
          query = [pop_scale |-> p, rate0 |-> [t \in 1..NPts |-> r0 * t],
                   n_alive |-> [t \in 1..NPts |-> 1], dt |-> TimeUnit]
    /\ res = [fn |-> "none", finalized |-> FALSE,
              new        |-> [t \in 1..NPts |-> 0],
              cumulative |-> [t \in 1..NPts |-> 0],
              rate       |-> query.rate0,
              raw        |-> [t \in 1..NPts |-> 0]]

NextSeries ==
    \/ SeriesUpdateResults
    \/ ModuleFinalize
    \/ DemographicsFinalize

SpecSeries == InitSeries /\ [][NextSeries]_vars

\* sim.pars.n_agents, sim.pars.slot_scale (in tenths) and sim.pars.min_slots
NAgentsSet   == {1, 2, 3, 10}
SlotScaleSet == {10, 15, 30, 50}
MinSlotsSet  == {0, 5, 12}

InitSlots ==
    /\ Dt = 1
    /\ burnin = FALSE
    /\ pNeonatal = 0
    /\ networks = NoNetworks
    /\ ti = 0
    /\ pc = "slots"
    /\ people = InitPeople
    /\ mod = InitMod
    /\ reqDeath = {}
    /\ err = "none"
    /\ nBg = 0
    /\ lastOp = "none"
    /\ updTis = <<>>
    /\ lastDead = {}
    /\ endStatus = NoStatus
    /\ mods = ReadyModules
    /\ \E n \in NAgentsSet, sc \in SlotScaleSet, ms \in MinSlotsSet :
          query = [n_agents |-> n, slot_scale |-> sc, min_slots |-> ms]
    /\ res = NoRes

NextSlots == ChooseSlot

SpecSlots == InitSlots /\ [][NextSlots]_vars

\* the items of the calls of append: objects, and dicts of up to MaxDictLen
\* entries whose values are objects or None
MaxDictLen == 2
Objects  == [kind : {"obj"}, name : {"a", "b", NoAttr},
             typ : {RequiredType, "other"}, items : {<<>>}]
DictKeys == {"x", "a", NameKey}
Entries  == [k : DictKeys, v : Objects \cup {None}]
Dicts    == {[kind |-> "dict", name |-> NoAttr, typ |-> "dict", items |-> es] :
               es \in {e \in UNION {[1..n -> Entries] : n \in 0..MaxDictLen} :
                          \A i, j \in 1..Len(e) : i # j => e[i].k # e[j].k}}
OldItem  == [kind |-> "obj", name |-> "a", typ |-> RequiredType, items |-> <<1>>]

InitNdict ==
    /\ Dt = 1
    /\ burnin = FALSE
    /\ pNeonatal = 0
    /\ networks = NoNetworks
    /\ ti = 0
    /\ pc = "ndict"
    /\ people = InitPeople
    /\ mod = InitMod
    /\ reqDeath = {}
    /\ err = "none"
    /\ nBg = 0
    /\ lastOp = "none"
    /\ updTis = <<>>
    /\ lastDead = {}
    /\ endStatus = NoStatus
    /\ mods = ReadyModules
    /\ \E self \in {<<>>, [k \in {"a"} |-> OldItem]},
          arg \in Objects \cup Dicts \cup {None},
          key \in {NoKey, "k"} :
          query = [self |-> self, arg |-> arg, key |-> key]
    /\ res = NoRes

NextNdict == NdictAppend

SpecNdict == InitNdict /\ [][NextNdict]_vars

SpecNet == InitNet /\ [][Next]_vars

SpecSched == Init /\ [][NextSched]_vars

\* ------------------------------------------------------------------ claims
Issued == {u \in UIDs : u < people.n}
Now == ti * Dt

\* C1: after every completed do_update (replay updates included) and every
\* update_death callback, every agent has at most one of the flags fecund,
\* pregnant, postpartum set.
C1_Exclusive ==
    \A u \in Issued :
        /\ ~(mod.fecund[u] /\ mod.pregnant[u])
        /\ ~(mod.fecund[u] /\ mod.postpartum[u])
        /\ ~(mod.pregnant[u] /\ mod.postpartum[u])

\* an agent is postpartum while another is fecund again after update_death
\* reset her for a lost embryo
C1_Witness ==
    /\ \E u \in Issued : mod.postpartum[u]
    /\ \E d \in lastDead : people.age[d] < 0 /\ mod.fecund[people.parent[d]]

\* C2: conception selection never selects an agent whose pregnant flag is
\* set, so the run never ends in the 'New conceptions registered in ...
\* pregnant agent(s)' error.
C2_NoPregnantConceives == err # "conception"

\* an update in which one agent conceived while another was already pregnant
C2_Witness ==
    /\ pc = "deaths" /\ err = "none" /\ mod.n_pregnancies > 0
    /\ \E u, v \in AUIDs(people) :
          /\ mod.pregnant[u] /\ mod.ti_pregnant[u] < Now
          /\ mod.pregnant[v] /\ mod.ti_pregnant[v] = Now

\* C3: with a prenatal and a postnatal layer the mothers of the prenatal
\* edges ending at a delivery step are exactly the delivering agents, so the
\* 'IDs of new mothers do not match IDs of new deliveries' error is never
\* raised.
C3_NoMismatch == err # "mismatch"

\* C4: with p_neonataldeath_on_maternaldeath = 1.0, when a mother whose
\* ti_dead was set at conception is removed at ti_dead, the update_death
\* callback of that removal submits her linked infant for removal.
C4_MaternalDeathCascade ==
    (pc = "advance" /\ pNeonatal = ProbScale) =>
        \A d \in lastDead :
            (/\ Leq(mod.ti_dead[d], Now)
             /\ mod.child_uid[d] # NaN
             /\ people.alive[mod.child_uid[d]])
            => mod.child_uid[d] \in reqDeath

\* the bin the age falls in: bin 0 below the lowest breakpoint, otherwise the
\* bin of the greatest breakpoint <= age (the last bin above the last one)
ExpectedBin(age, bins) ==
    IF age < bins[1] THEN 0
    ELSE (CHOOSE i \in 1..Len(bins) :
                /\ bins[i] <= age
                /\ \A j \in 1..Len(bins) : bins[j] <= age => j <= i) - 1

\* C5: when Deaths or Pregnancy resolves a rate from an age-stratified table,
\* the index is never negative, and the bin used is bin 0 for an age below the
\* lowest breakpoint and otherwise the bin of the greatest breakpoint <= age.
C5_BinOfAge ==
    res.fn \in {"deaths", "pregnancy"} =>
        /\ res.index >= 0
        /\ res.bin = ExpectedBin(query.age, query.bins)

\* C6: every probability that Deaths, Pregnancy and PregnancyLite hand to
\* their Bernoulli filter lies in [0,1], for every rate, relative multiplier
\* and timestep size.
C6_ProbInUnitInterval ==
    res.fn # "none" => (0 <= res.prob /\ res.prob <= ProbScale)

\* C7: when the scheduler has invoked step on the Pregnancy module for a
\* timestep, that timestep's update has run: do_update was performed at the
\* current time index and no delivery is left due.
C7_StepUpdates ==
    (pc = "deaths" /\ lastOp = "step") =>
        /\ updTis # <<>>
        /\ \A u \in AUIDs(people) : ~(mod.pregnant[u] /\ Leq(mod.ti_delivery[u], Now))

\* C8: once finalize has been called on a module, a later step on that module
\* is rejected: it changes neither the population, nor the removal requests,
\* nor the module's counter.
C8_StepAfterFinalizeRejected ==
    [][ /\ (mods["births"].finalized /\ BirthsStep)
            => UNCHANGED <<people, reqDeath, mods>>
        /\ (mods["deaths"].finalized /\ DeathsStep)
            => UNCHANGED <<people, reqDeath, mods>> ]_vars

\* C9: initialized is false after construction and after init_pre and becomes
\* true only in init_post, and a step on a module whose init_post has not run
\* takes no effect.
C9_Lifecycle ==
    [][ /\ \A M \in ModuleNames :
              (~mods[M].initialized /\ mods'[M].initialized) => InitPost(M)
        /\ (~mods["births"].initialized /\ BirthsStep)
              => UNCHANGED <<people, reqDeath, mods>>
        /\ (~mods["deaths"].initialized /\ DeathsStep)
              => UNCHANGED <<people, reqDeath, mods>> ]_vars

\* C11 as stated: with a fertility table and somebody pregnant, the rate of
\* a bin is (table rate * women in bin) / (women in bin - pregnant women in
\* bin) where that denominator is positive and 0 where it is zero or
\* negative; no conception probability is negative.
C11_RescaledOrZero ==
    (res.fn = "rescaled" /\ \E u \in AUIDs(people) : mod.pregnant[u]) =>
        /\ \A b \in DOMAIN res.rate :
              /\ res.denom[b] > 0 =>
                    res.rate[b].num * res.denom[b]
                        = query.vals[b + 1] * res.count[b] * res.rate[b].den
              /\ res.denom[b] <= 0 => res.rate[b].num = 0
        /\ \A u \in DOMAIN res.prob : res.prob[u] >= 0

\* C11 amended: the rate of a bin is the rescaled one where the denominator
\* is positive and the unadjusted table rate where it is zero or negative; an
\* agent whose rate is read from such a bin has conception probability 0, and
\* every conception probability is in [0,1].
C11_RescaledOrTable ==
    (res.fn = "rescaled" /\ \E u \in AUIDs(people) : mod.pregnant[u]) =>
        /\ \A b \in DOMAIN res.rate :
              /\ res.denom[b] > 0 =>
                    res.rate[b].num * res.denom[b]
                        = query.vals[b + 1] * res.count[b] * res.rate[b].den
              /\ res.denom[b] <= 0 =>
                    /\ res.rate[b].num = query.vals[b + 1] * res.rate[b].den
                    /\ \A u \in DOMAIN res.prob :
                          PyIndex(binned_ages(people.age[u], query.bins),
                                  Len(query.bins)) = b
                          => res.prob[u] = 0
        /\ \A u \in DOMAIN res.prob : 0 <= res.prob[u] /\ res.prob[u] <= ProbScale

\* every woman of a bin with a nonzero table rate is pregnant, while a woman
\* of another bin conceives at a rescaled rate
C11_Witness ==
    /\ res.fn = "rescaled"
    /\ \E b \in DOMAIN res.rate :
          res.denom[b] = 0 /\ res.count[b] > 0 /\ query.vals[b + 1] > 0
    /\ \E b \in DOMAIN res.rate :
          res.denom[b] > 0 /\ res.denom[b] < res.count[b]
    /\ \E u \in DOMAIN res.prob : res.prob[u] > 0

\* at the conception sampling of the do_update about to run, u is the only
\* agent with a positive conception probability, and hers is 1.0
SoleCertain(u) ==
    LET us == update_states(mod, networks, reqDeath, people, ti)
        eligible_uids == {v \in AUIDs(people) : people.female[v]}
        p == [v \in eligible_uids |-> make_fertility_prob_fn(us.mod, people, v)]
    IN /\ us.err = "none"
       /\ u \in eligible_uids
       /\ {v \in eligible_uids : p[v] > 0} = {u}
       /\ p[u] >= ProbScale

\* after the do_update u is pregnant and due at now + gestation, and exactly
\* one agent was added, her child, of age age0
Conceived(u, age0) ==
    /\ mod'.pregnant[u]
    /\ mod'.ti_delivery[u] = ti * Dt + DurPregnancy
    /\ people'.n = people.n + 1
    /\ people'.alive[people.n]
    /\ people'.age[people.n] = age0
    /\ people'.parent[people.n] = u
    /\ mod'.child_uid[u] = people.n

\* C12 as stated: an update in which exactly one female agent is eligible,
\* with conception probability 1.0, leaves her pregnant with ti_delivery =
\* now + gestation and adds exactly one agent, of age -gestation and with
\* parent = the mother.
C12_SingleConception ==
    [][\A u \in UIDs :
          ((Replay \/ UpdateFinal) /\ SoleCertain(u))
              => Conceived(u, -DurPregnancy)]_vars

\* C12 amended: as stated, but the age of the new agent is -gestation only
\* for an update at a time index >= 0; an embryo made in a burn-in replay at
\* time index ti < 0 gets age -gestation + (-ti) * dt.
C12_SingleConceptionAged ==
    [][\A u \in UIDs :
          ((Replay \/ UpdateFinal) /\ SoleCertain(u))
              => Conceived(u, (-DurPregnancy) + (IF ti < 0 THEN (-ti) * Dt ELSE 0))]_vars

\* the burn-in replay has run, and in it the only eligible woman, whose
\* conception is certain, conceived: her embryo has been aged to ti = 0
C12_Witness ==
    /\ pc = "final" /\ err = "none"
    /\ mod.fertility_rate_data * RelFertility * Dt >= ProbScale
    /\ \E u \in AUIDs(people) :
          /\ mod.pregnant[u] /\ mod.ti_pregnant[u] < 0
          /\ people.parent[mod.child_uid[u]] = u
          /\ people.age[mod.child_uid[u]] = (-DurPregnancy) - mod.ti_pregnant[u]

\* C13: a Births step adds n_new = floor(alive_count * clip(birth_rate *
\* units * rel_birth * dt, 0, 1)) agents, a number fixed by the state (1000
\* alive agents, rate 30 per 1000, dt one year: 30), with 0 <= n_new <=
\* alive_count.
C13_BirthCount ==
    [][BirthsStep =>
          LET alive_count == Cardinality(AUIDs(people))
              births == people'.n - people.n
          IN /\ births * ProbScale <= alive_count * Min(BirthRate * RelBirth * Dt, ProbScale)
             /\ (births + 1) * ProbScale > alive_count * Min(BirthRate * RelBirth * Dt, ProbScale)
             /\ 0 <= births /\ births <= alive_count
             /\ mods'["births"].n = births
             /\ Cardinality(AUIDs(people')) = alive_count + births
             /\ get_n_new(1000, 30, 1, TimeUnit) = 30]_vars

\* a Births step has added one agent to three alive agents (floor of 1.5)
C13_Witness ==
    /\ pc = "life" /\ Dt = 1
    /\ mods["births"].n = 1
    /\ people.n = NAgents + 2
    /\ Cardinality(AUIDs(people)) = 4

\* the available year nearest to the time x, the lower one of two equally
\* near years
NearestYear(years, x) ==
    CHOOSE y \in {years[i] : i \in 1..Len(years)} :
        \A z \in {years[i] : i \in 1..Len(years)} :
            \/ Abs(y * TimeUnit - x) < Abs(z * TimeUnit - x)
            \/ (Abs(y * TimeUnit - x) = Abs(z * TimeUnit - x) /\ y <= z)

\* the table entry of year y
EntryOf(tbl, y) == tbl.vals[CHOOSE i \in 1..Len(tbl.years) : tbl.years[i] = y]

\* the whole years from the first to the last year of the table
WholeYears(tbl) ==
    [k \in 1..(tbl.years[Len(tbl.years)] - tbl.years[1] + 1) |-> tbl.years[1] + k - 1]

C15_ChildUidIffCarrying ==
    \A u \in Issued : (mod.child_uid[u] # NaN) <=> (mod.pregnant[u] \/ mod.postpartum[u])

\* update_death has reset the mother of an embryo lost in utero while another
\* agent is pregnant or postpartum with her child_uid set
C15_Witness ==
    /\ \E d \in lastDead :
          /\ people.age[d] < 0
          /\ mod.child_uid[people.parent[d]] = NaN
          /\ ~mod.pregnant[people.parent[d]]
    /\ \E u \in Issued : mod.child_uid[u] # NaN /\ (mod.pregnant[u] \/ mod.postpartum[u])

\* the living children made by Pregnancy, and whether the mother of c is
\* still pregnant with c
Children == {c \in AUIDs(people) : people.parent[c] # NaN}
Carried(c) == mod.pregnant[people.parent[c]] /\ mod.child_uid[people.parent[c]] = c

Offending == (query.pars \cup query.kwargs) \ (DeclaredPars \cup {"name", "label", "unit", "dt"})

\* C17: update_pars raises one error naming every offending key and their
\* count when there is an offending key, and raises none when every key is
\* recognized.
C17_UnrecognizedKeysListed ==
    res.fn = "update_pars" =>
        /\ Offending # {} => (res.raised /\ res.keys = Offending
                              /\ res.count = Cardinality(Offending))
        /\ Offending = {} => ~res.raised

\* update_pars was given two or more offending keys next to a declared
\* parameter and a module attribute
C17_Witness ==
    /\ res.fn = "update_pars"
    /\ res.raised
    /\ Cardinality(res.keys) >= 2
    /\ res.matches # {}
    /\ (query.pars \cup query.kwargs) \cap ModuleAttrs # {}

\* C19: after finalize the crude rate of Births (cbr), Deaths (cmr) and
\* Pregnancy (cbr) is exactly 0 at every time index whose alive count is 0
\* and is new / dt in years / alive count, per unit, at every other index.
C19_CrudeRateGuarded ==
    res.fn \in {"births.cbr", "deaths.cmr", "pregnancy.cbr"} =>
        \A i \in 1..Len(query.new) :
            /\ query.n_alive[i] = 0 => res.rate[i].num = 0
            /\ query.n_alive[i] > 0 =>
                  res.rate[i].num * query.dt * query.n_alive[i]
                     = PerUnit * query.new[i] * TimeUnit * res.rate[i].den

\* the mothers that the do_update at the current time index delivers
Delivering == {u \in AUIDs(people) : mod.pregnant[u] /\ Leq(mod.ti_delivery[u], Now)}

\* layer holds an edge between mother u and child c
HasPair(layer, u, c) == \E k \in 1..Len(layer.edges) :
                            layer.edges[k].p1 = u /\ layer.edges[k].p2 = c

\* C20: in a do_update that delivers, the update completes, the (mother,
\* child) edge of every delivering mother is gone from the prenatal layer
\* and every postnatal layer has an edge with the same mother and child,
\* start = now and duration = the mother's postpartum duration.
C20_EdgeMovedAtDelivery ==
    [][(Replay \/ UpdateFinal) =>
         \A u \in Delivering :
            /\ err' = "none"
            /\ \A i \in 1..Len(networks') :
                  /\ networks'[i].prenatal =>
                        ~HasPair(networks'[i], u, mod.child_uid[u])
                  /\ networks'[i].postnatal =>
                        \E k \in 1..Len(networks'[i].edges) :
                           /\ networks'[i].edges[k].p1 = u
                           /\ networks'[i].edges[k].p2 = mod.child_uid[u]
                           /\ networks'[i].edges[k].start = Now
                           /\ networks'[i].edges[k].dur = mod.dur_postpartum[u]]_vars

\* the per-agent states of Pregnancy
AgentStates == {"infertile", "fecund", "pregnant", "postpartum", "child_uid",
                "dur_postpartum", "ti_pregnant", "ti_delivery", "ti_postpartum", "ti_dead"}

\* the mothers of the embryos (age < 0) among the agents that the death
\* callback about to run is called with
LostMothers == {people'.parent[d] : d \in {x \in lastDead' : people'.age[x] < 0}}

\* C21: update_death called with a removed embryo leaves its mother not
\* pregnant, not postpartum, fecund, with child_uid, ti_delivery and
\* ti_postpartum undefined; her ti_dead and ti_pregnant and every state of
\* every other agent are unchanged.
C21_EmbryoLossResetsMother ==
    [][ResolveDeaths =>
         /\ \A u \in LostMothers :
               /\ ~mod'.pregnant[u] /\ ~mod'.postpartum[u] /\ mod'.fecund[u]
               /\ mod'.child_uid[u] = NaN
               /\ mod'.ti_delivery[u] = NaN
               /\ mod'.ti_postpartum[u] = NaN
               /\ mod'.ti_dead[u] = mod.ti_dead[u]
               /\ mod'.ti_pregnant[u] = mod.ti_pregnant[u]
         /\ \A u \in UIDs \ LostMothers :
               \A f \in AgentStates : mod'[f][u] = mod[f][u]]_vars

\* update_death has reset the mother of a lost embryo whose ti_dead is set,
\* while another agent is pregnant
C21_Witness ==
    /\ pc = "advance"
    /\ \E d \in lastDead :
          /\ people.age[d] < 0
          /\ mod.fecund[people.parent[d]]
          /\ mod.ti_dead[people.parent[d]] # NaN
          /\ mod.ti_pregnant[people.parent[d]] # NaN
    /\ \E u \in Issued : mod.pregnant[u]

\* C22: every living agent that the maternal-death sub-step of a do_update
\* submits for removal (ti_dead <= now) delivers in that do_update or has
\* delivered before it the pregnancy in which her ti_dead was set: her
\* ti_delivery is her ti_dead (a due pregnancy is delivered by the first
\* sub-step, and only a delivery ends a pregnancy with ti_delivery kept).
C22_MaternalDeathAfterDelivery ==
    [][(Replay \/ UpdateFinal) =>
         \A u \in AUIDs(people) :
            Leq(mod.ti_dead[u], Now) =>
               /\ u \in reqDeath'
               /\ mod.ti_delivery[u] = mod.ti_dead[u]]_vars

\* the agents that the do_update at the current time index makes pregnant
Conceiving == {u \in UIDs : mod'.ti_pregnant[u] = Now /\ mod.ti_pregnant[u] # Now}

\* C23: no agent with age < min_age or age >= max_age, and no agent that is
\* male, infertile or (when the candidates are evaluated, after
\* update_states) not fecund is selected for conception.
C23_OnlyEligibleConceive ==
    [][(Replay \/ UpdateFinal) =>
         \A u \in Conceiving :
            /\ people.female[u]
            /\ ~mod.infertile[u]
            /\ update_states(mod, networks, reqDeath, people, ti).mod.fecund[u]
            /\ MinAge <= people.age[u]
            /\ people.age[u] < MaxAge]_vars

\* C24: standardize_data raises for a DataFrame or a dict that lacks a
\* column or key of metadata.data_cols, for a Series whose index is neither
\* all ages (< 120) nor all years (> 1900) and for an unsupported type, and
\* returns a plain number unchanged.
C24_MalformedDataRejected ==
    res.fn = "standardize_data" =>
        /\ (query.type \in {"DataFrame", "dict"} /\ ~(DataCols \subseteq query.cols))
              => res.raised
        /\ (query.type = "Series"
              /\ (\E x \in query.index : x >= 120) /\ (\E x \in query.index : x <= 1900))
              => res.raised
        /\ query.type \notin {"DataFrame", "Series", "dict", "number"} => res.raised
        /\ query.type = "number" =>
              (~res.raised /\ res.out = "number" /\ res.value = query.value)

\* the number of prenatal-tagged layers of sim.networks
NPrenatal == Cardinality({i \in 1..Len(networks) : networks[i].prenatal})

\* C25: a Pregnancy module with network layers is stepped only if exactly
\* one layer is prenatal; with none or with more than one, initialization
\* ends in an error.
C25_OnePrenatalLayer ==
    (pc # "init" /\ Len(networks) > 0) => NPrenatal = 1

\* C26: a Births step grows the population by exactly n_new agents whose
\* UIDs were not issued before, sets the age of exactly those agents to 0
\* and leaves every existing agent as it was; update_results records n_new
\* as the 'new' result of the step.
C26_BirthsGrowPopulation ==
    [][/\ BirthsStep =>
            /\ people'.n - people.n = get_births(people)
            /\ mods'["births"].n = get_births(people)
            /\ \A u \in UIDs :
                  IF people.n <= u /\ u < people'.n
                  THEN ~people.alive[u] /\ people'.alive[u] /\ people'.age[u] = 0
                  ELSE people'.alive[u] = people.alive[u] /\ people'.age[u] = people.age[u]
       /\ UpdateResults("births") =>
            /\ mods'["births"].new[ti] = mods["births"].n
            /\ \A t \in 0..MaxTi : t # ti => mods'["births"].new[t] = mods["births"].new[t]]_vars

\* after a step an existing agent has aged, and a Births step has added an
\* agent of age 0 and recorded it as the 'new' result of the current step
C26_Witness ==
    /\ pc = "life" /\ ti >= 1
    /\ mods["births"].n >= 1
    /\ mods["births"].new[ti] = mods["births"].n
    /\ people.age[0] > 80
    /\ \E u \in UIDs : u >= NAgents /\ u = people.n - 1 /\ people.alive[u] /\ people.age[u] = 0

\* C27: no operation of PregnancyLite (update with its do_update calls,
\* update_death) adds or ends a network edge or submits an agent for
\* removal: sim.networks and the set of death requests are unchanged by it.
C27_LiteLeavesNetworksAndRequests ==
    [][(LiteUpdateEnter \/ LiteReplay \/ LiteUpdateFinal \/ LiteUpdateDeath) =>
          (networks' = networks /\ reqDeath' = reqDeath)]_vars

\* PregnancyLite has delivered a child and update_death has reset the mother
\* of a lost embryo while a removal requested by another module is pending
C27_Witness ==
    /\ pc = "lite_advance"
    /\ reqDeath # {}
    /\ mod.n_births >= 1
    /\ \E d \in lastDead : people.age[d] < 0 /\ mod.child_uid[people.parent[d]] = NaN
    /\ \A i \in 1..Len(networks) : networks[i].edges = <<>>

\* the agents who deliver in the do_update about to run
DeliveringNow ==
    {u \in AUIDs(people) : mod.pregnant[u] /\ Leq(mod.ti_delivery[u], Now)}

\* C28: within one do_update the deliveries, the postpartum exit and the
\* maternal deaths are resolved before conception candidates are evaluated,
\* and prognosis and embryo creation follow the selection: an agent pregnant
\* at the start with ti_delivery <= now is not pregnant in the state the
\* candidates are evaluated in, and one who delivers with ti_postpartum > now
\* does not conceive in that do_update: she ends it postpartum, not pregnant,
\* with her ti_pregnant and child_uid as they were.
C28_DeliveryBeforeConception ==
    [][(Replay \/ UpdateFinal) =>
          LET us == update_states(mod, networks, reqDeath, people, ti)
          IN \A u \in DeliveringNow :
                /\ ~us.mod.pregnant[u]
                /\ mod.ti_postpartum[u] > Now =>
                      /\ us.mod.postpartum[u] /\ ~us.mod.fecund[u]
                      /\ make_fertility_prob_fn(us.mod, people, u) = 0
                      /\ mod'.postpartum[u] /\ ~mod'.pregnant[u] /\ ~mod'.fecund[u]
                      /\ mod'.ti_pregnant[u] = mod.ti_pregnant[u]
                      /\ mod'.child_uid[u] = mod.child_uid[u]]_vars

\* a do_update in which one agent delivered, staying postpartum, and another
\* conceived
C28_Witness ==
    /\ pc = "deaths"
    /\ mod.n_births >= 1
    /\ mod.n_pregnancies >= 1
    /\ \E u \in AUIDs(people) :
          /\ mod.postpartum[u] /\ ~mod.pregnant[u]
          /\ Leq(mod.ti_delivery[u], Now) /\ mod.ti_postpartum[u] > Now
          /\ mod.ti_pregnant[u] # Now

\* the embryo of agent u was removed in this step's death resolution
LostEmbryo(u) == \E d \in lastDead : people.parent[d] = u /\ people.age[d] < 0

\* the status changes the lifecycle names
LifecycleEdges ==
    {<<"fecund", "pregnant">>, <<"pregnant", "postpartum">>, <<"postpartum", "fecund">>}

\* a timestep has ended after an earlier one ended
StepEnded == pc = "advance" /\ err = "none" /\ endStatus # NoStatus

\* C29: between the ends of two consecutive steps a living agent's status
\* stays or changes along fecund -> pregnant, pregnant -> postpartum,
\* postpartum -> fecund, pregnant -> fecund (after the loss of her embryo, or
\* when her ti_postpartum <= now at her delivery, so that she delivers and
\* leaves postpartum in one update) or postpartum -> pregnant (she leaves
\* postpartum and conceives in one update); no agent goes from fecund
\* directly to postpartum.
C29_StatusEdges ==
    StepEnded =>
       \A u \in AUIDs(people) :
          LET a == endStatus[u]
              b == status(mod, u)
          IN \/ a = b
             \/ <<a, b>> \in LifecycleEdges
             \/ /\ a = "pregnant" /\ b = "fecund"
                /\ LostEmbryo(u) \/ Leq(mod.ti_postpartum[u], Now)
             \/ /\ a = "postpartum" /\ b = "pregnant"
                /\ mod.ti_pregnant[u] = Now

\* C29 as stated: between the ends of two consecutive steps a living agent's
\* status stays or changes along fecund -> pregnant, pregnant -> postpartum,
\* postpartum -> fecund, or pregnant -> fecund after the loss of her embryo.
C29_StatusEdgesAsStated ==
    StepEnded =>
       \A u \in AUIDs(people) :
          LET a == endStatus[u]
              b == status(mod, u)
          IN \/ a = b
             \/ <<a, b>> \in LifecycleEdges
             \/ (a = "pregnant" /\ b = "fecund" /\ LostEmbryo(u))

\* a step ended in which one agent left postpartum and conceived, after a
\* step in which she was postpartum
C29_Witness ==
    /\ StepEnded
    /\ \E u \in AUIDs(people) :
          /\ endStatus[u] = "postpartum" /\ status(mod, u) = "pregnant"
          /\ mod.ti_pregnant[u] = Now

\* C30: every agent conceived in a do_update at time now is left pregnant
\* and not fecund, with ti_pregnant = now, ti_delivery = now + the gestation
\* duration and ti_postpartum = ti_delivery + her sampled postpartum duration
\* (now < ti_delivery <= ti_postpartum); her ti_dead is either set to
\* ti_delivery (her maternal-death draw was true) or what it was; the states
\* of the agents not conceived in this do_update are those update_states
\* left them with.
C30_PrognosesOfConceived ==
    [][(Replay \/ UpdateFinal) =>
          LET us == update_states(mod, networks, reqDeath, people, ti)
          IN /\ \A u \in Conceiving :
                   /\ mod'.pregnant[u] /\ ~mod'.fecund[u]
                   /\ mod'.ti_pregnant[u] = Now
                   /\ mod'.ti_delivery[u] = Now + DurPregnancy
                   /\ mod'.dur_postpartum[u] \in DurPostSet
                   /\ mod'.ti_postpartum[u] = mod'.ti_delivery[u] + mod'.dur_postpartum[u]
                   /\ Now < mod'.ti_delivery[u]
                   /\ mod'.ti_delivery[u] <= mod'.ti_postpartum[u]
                   /\ \/ mod'.ti_dead[u] = mod'.ti_delivery[u]
                      \/ mod'.ti_dead[u] = us.mod.ti_dead[u]
             /\ \A u \in UIDs \ Conceiving :
                   \A f \in AgentStates : mod'[f][u] = us.mod[f][u]]_vars

\* a do_update has ended in which one agent conceived, with a true
\* maternal-death draw, while another one was carrying an earlier pregnancy
C30_Witness ==
    /\ pc = "deaths"
    /\ \E u, v \in AUIDs(people) :
          /\ u # v
          /\ mod.pregnant[u] /\ mod.ti_pregnant[u] = Now
          /\ mod.ti_dead[u] = mod.ti_delivery[u]
          /\ mod.pregnant[v] /\ mod.ti_pregnant[v] # NaN /\ mod.ti_pregnant[v] < Now

\* the living agents who are pregnant
PregnantMothers == {u \in AUIDs(people) : mod.pregnant[u]}

\* C31 (pairing): every living pregnant mother m has a child c with
\* child_uid[m] = c and parent[c] = m, and no two living pregnant mothers
\* share a child_uid.
C31_MotherChildPairing ==
    /\ \A m \in PregnantMothers :
          /\ mod.child_uid[m] \in UIDs
          /\ mod.child_uid[m] < people.n
          /\ people.parent[mod.child_uid[m]] = m
    /\ \A m1, m2 \in PregnantMothers :
          m1 # m2 => mod.child_uid[m1] # mod.child_uid[m2]

\* C31: each do_update creates exactly one new agent per conceived mother:
\* the population grows by the number of conceptions, which is the recorded
\* n_pregnancies; and the pairing of mothers and children holds after it.
C31_OneAgentPerConception ==
    [][(Replay \/ UpdateFinal) =>
          /\ people'.n - people.n = Cardinality(Conceiving)
          /\ mod'.n_pregnancies = Cardinality(Conceiving)
          /\ \A m \in Conceiving :
                /\ mod'.child_uid[m] \in people.n .. (people'.n - 1)
                /\ people'.parent[mod'.child_uid[m]] = m
                /\ people'.alive[mod'.child_uid[m]]
          /\ C31_MotherChildPairing']_vars

\* two living mothers conceived in the same do_update and carry two children
C31_Witness ==
    /\ pc = "deaths"
    /\ mod.n_pregnancies = 2
    /\ \E m1, m2 \in PregnantMothers :
          /\ m1 # m2
          /\ mod.ti_pregnant[m1] = Now /\ mod.ti_pregnant[m2] = Now
          /\ mod.child_uid[m1] # mod.child_uid[m2]
          /\ people.parent[mod.child_uid[m1]] = m1
          /\ people.parent[mod.child_uid[m2]] = m2

\* a living agent whose delivery is due: pregnant with ti_delivery <= now
DeliveryDue(u) ==
    people.alive[u] /\ mod.pregnant[u] /\ Leq(mod.ti_delivery[u], Now)

\* a living agent whose postpartum exit is due
ExitDue(u) ==
    people.alive[u] /\ mod.postpartum[u] /\ Leq(mod.ti_postpartum[u], Now)

\* the agents of the initial population (an agent created in the run stays
\* below min_age)
InitialUIDs == 0..(NAgents - 1)

\* what one do_update does to the pregnant and the postpartum agents
UpdateMovesOnTime ==
    (Replay \/ UpdateFinal) =>
       LET us == update_states(mod, networks, reqDeath, people, ti)
       IN \A u \in AUIDs(people) :
             /\ (mod.pregnant[u] /\ ~Leq(mod.ti_delivery[u], Now)) =>
                   /\ mod'.pregnant[u] /\ ~mod'.postpartum[u]
                   /\ mod'.child_uid[u] = mod.child_uid[u]
             /\ (DeliveryDue(u) /\ ~Leq(mod.ti_postpartum[u], Now)) =>
                   /\ mod'.postpartum[u] /\ ~mod'.pregnant[u] /\ ~mod'.fecund[u]
                   /\ mod'.child_uid[u] = mod.child_uid[u]
             /\ (mod.postpartum[u] /\ ~mod.pregnant[u]
                    /\ ~Leq(mod.ti_postpartum[u], Now)) =>
                   /\ mod'.postpartum[u] /\ ~mod'.pregnant[u]
                   /\ mod'.child_uid[u] = mod.child_uid[u]
             /\ (ExitDue(u) \/ (DeliveryDue(u) /\ Leq(mod.ti_postpartum[u], Now))) =>
                   /\ ~us.mod.pregnant[u] /\ ~us.mod.postpartum[u] /\ us.mod.fecund[u]
                   /\ us.mod.child_uid[u] = NaN
                   /\ ~mod'.postpartum[u]
                   /\ IF u \in Conceiving
                      THEN mod'.pregnant[u] /\ mod'.child_uid[u] >= people.n
                      ELSE /\ ~mod'.pregnant[u] /\ mod'.fecund[u]
                           /\ mod'.child_uid[u] = NaN

\* C32: with update run at every step, a living pregnant agent stays
\* pregnant through every update whose time is before her ti_delivery and
\* becomes postpartum in the first update with now >= ti_delivery; a
\* postpartum agent stays so while now < ti_postpartum and in the first
\* update with now >= ti_postpartum she leaves postpartum, fecund again and
\* with child_uid cleared; and a delivery or a postpartum exit that is due
\* does eventually happen.
C32_DeliveryAndExitOnTime ==
    /\ [][UpdateMovesOnTime]_vars
    /\ \A u \in InitialUIDs :
          (DeliveryDue(u) \/ ExitDue(u)) ~> ~(DeliveryDue(u) \/ ExitDue(u))

\* an agent who had delivered and was postpartum when the previous step
\* ended has left postpartum in this step's update, at now >= ti_postpartum
C32_Witness ==
    /\ pc = "deaths"
    /\ \E u \in InitialUIDs :
          /\ people.alive[u]
          /\ endStatus[u] = "postpartum"
          /\ ~mod.postpartum[u]
          /\ mod.ti_pregnant[u] = Now
          /\ \E c \in UIDs : people.parent[c] = u /\ people.alive[c] /\ people.age[c] >= 0

\* the probability of death of agent u with tabular data
TableDeathProb(u) ==
    make_death_prob_fn([age |-> people.age[u], bins |-> query.bins,
                        vals |-> query.vals, rel |-> query.rel, dt |-> query.dt])

\* C33: with tabular death-rate data the probability function accepts only
\* the full set of alive agents (any other candidate set fails the assertion
\* and no probabilities are returned; the full set gets each agent's own
\* probability); with scalar data every candidate set is accepted and every
\* candidate gets the same probability.
C33_TabularNeedsAliveSet ==
    res.fn = "death_prob_fn" =>
       IF query.tabular
       THEN /\ res.raised <=> query.uids # AUIDs(people)
            /\ res.raised => res.prob = <<>>
            /\ ~res.raised => \A u \in query.uids : res.prob[u] = TableDeathProb(u)
       ELSE /\ ~res.raised
            /\ \A u, v \in query.uids : res.prob[u] = res.prob[v]

\* C33, the size check alone: a candidate set whose size differs from that of
\* the alive set fails the assertion
C33_SizeChecked ==
    (res.fn = "death_prob_fn" /\ query.tabular) =>
       /\ res.raised <=> Cardinality(query.uids) # Cardinality(AUIDs(people))
       /\ query.uids = AUIDs(people) =>
             \A u \in query.uids : res.prob[u] = TableDeathProb(u)

C36_SlotAboveInitialPopulation ==
    res.fn = "choose_slots" =>
       /\ res.low = query.n_agents + 1
       /\ res.high = Max((query.slot_scale * query.n_agents) \div ScaleUnit,
                         query.min_slots)
       /\ ~res.raised
       /\ res.low <= res.slot /\ res.slot <= res.high
       /\ res.slot > query.n_agents

\* C36 without the non-emptiness: a slot that is drawn lies in the range and
\* above the initial population
C36_DrawnSlotInRange ==
    (res.fn = "choose_slots" /\ ~res.raised) =>
       /\ res.low = query.n_agents + 1
       /\ res.low <= res.slot /\ res.slot <= res.high
       /\ res.slot > query.n_agents

\* the time index moves inside Pregnancy.update only in the replay of step 0
UpdateKeepsTimeIndex ==
    /\ UpdateEnter =>
          /\ ti >= 0
          /\ ti' # ti => (ti = 0 /\ burnin /\ pc' = "replay" /\ ti' < 0)
    /\ Replay =>
          /\ burnin /\ BurninStart <= ti /\ ti < 0
          /\ ti' = ti + 1
          /\ pc' = "final" <=> ti' = 0
    /\ UpdateFinal =>
          /\ ti' = ti /\ ti >= 0
          /\ updTis # <<>> => ti = 0

\* C37: the burn-in replay changes the simulation time index only for the
\* time of the replay: when update returns at step 0 the time index is 0
\* again, and an update at another step never changes the time index.
C37_ReplayRestoresTimeIndex ==
    [][UpdateKeepsTimeIndex]_vars

C37_Witness ==
    /\ pc = "deaths" /\ err = "none" /\ burnin
    /\ Len(updTis) > 1
    /\ updTis[1] = BurninStart /\ updTis[Len(updTis)] = 0
    /\ ti = 0

\* the same for PregnancyLite.update
LiteUpdateKeepsTimeIndex ==
    [][/\ LiteUpdateEnter =>
             /\ ti >= 0
             /\ ti' # ti => (ti = 0 /\ burnin /\ pc' = "lite_replay" /\ ti' < 0)
       /\ LiteReplay =>
             /\ burnin /\ ti < 0 /\ ti' = ti + 1
             /\ pc' = "lite_final" <=> ti' = 0
       /\ LiteUpdateFinal =>
             /\ ti' = ti /\ ti >= 0
             /\ updTis # <<>> => ti = 0]_vars

\* C38: the pregnancy and birth counts recorded for a step are those of the
\* last do_update of the step only: each do_update replaces the counts by the
\* conceptions and deliveries of that call, and the resolution of deaths that
\* follows leaves them, so at step 0 with burn-in the conceptions and
\* deliveries of the replay are not in the results, although the agents the
\* replay created are in the population.
C38_CountsOfLastUpdateOnly ==
    [][/\ ((Replay \/ UpdateFinal) /\ err' = "none") =>
             /\ update_results(mod') =
                   [pregnancies |-> Cardinality(Conceiving),
                    births      |-> Cardinality(DeliveringNow)]
             /\ people'.n - people.n = Cardinality(Conceiving)
       /\ ResolveDeaths =>
             /\ update_results(mod') = update_results(mod)
             /\ people'.n = people.n]_vars

C38_Witness ==
    /\ pc = "advance" /\ err = "none" /\ burnin /\ ti = 0
    /\ Len(updTis) > 1
    /\ update_results(mod).pregnancies >= 1
    /\ people.n - NAgents > update_results(mod).pregnancies
    /\ \E c \in AUIDs(people) : c >= NAgents /\ people.age[c] < 0

\* C39: update_pars writes every recognized parameter and name, label, unit
\* and dt to the module before it checks for unrecognized keys: a call that
\* raises for unrecognized keys has written the recognized keys of the same
\* call, exactly as a call that does not raise.
C39_RecognizedWrittenBeforeRaise ==
    res.fn = "update_pars" =>
        /\ res.matches = (query.pars \cup query.kwargs) \cap DeclaredPars
        /\ res.attrs = (query.pars \cup query.kwargs) \cap ModuleAttrs
        /\ res.raised <=> Offending # {}

C39_Witness ==
    /\ res.fn = "update_pars"
    /\ res.raised
    /\ "foo" \in res.keys
    /\ "birth_rate" \in res.matches
    /\ "dt" \in res.attrs

\* an item append may store: it has the name attribute and the required type
Storable(v) == v.kind = "obj" /\ v.name # NoAttr /\ v.typ = RequiredType

\* the index of the first value of the dict that append rejects, 0 if none
FirstRejected(arg) ==
    LET bad == {i \in 1..Len(arg.items) :
                   arg.items[i].v # None /\ ~Storable(arg.items[i].v)}
    IN IF bad = {} THEN 0 ELSE CHOOSE i \in bad : \A j \in bad : i <= j

\* the container with the values of the dict up to entry n stored under
\* their keys
WithValues(self, arg, n) ==
    LET put == {i \in 1..n : arg.items[i].v # None}
    IN [k \in (DOMAIN self) \cup {arg.items[i].k : i \in put} |->
          IF \E i \in put : arg.items[i].k = k
          THEN arg.items[CHOOSE i \in put : arg.items[i].k = k].v
          ELSE self[k]]

\* what C40 says of every call but the rejections
AppendStores ==
    LET arg == query.arg
        plain == arg.kind = "dict" /\ ~HasNameKey(arg)
    IN /\ \A k \in DOMAIN res.self :
             (k \notin DOMAIN query.self \/ res.self[k] # query.self[k])
                => Storable(res.self[k])
       /\ arg = None => (res.raised = "none" /\ res.self = query.self)
       /\ Storable(arg) =>
             /\ res.raised = "none"
             /\ res.self = SetItem(query.self,
                                   IF query.key # NoKey THEN query.key ELSE arg.name, arg)
       /\ (plain /\ FirstRejected(arg) = 0) =>
             /\ res.raised = "none"
             /\ res.self = WithValues(query.self, arg, Len(arg.items))
       /\ (arg.kind = "obj" /\ arg.name = NoAttr) => res.raised = "ValueError"
       /\ (arg.kind = "obj" /\ arg.name # NoAttr /\ arg.typ # RequiredType)
             => res.raised = "TypeError"
       /\ (arg.kind = "dict" /\ HasNameKey(arg)) => res.raised = "TypeError"
       /\ (plain /\ FirstRejected(arg) # 0) =>
             res.raised = (IF arg.items[FirstRejected(arg)].v.name = NoAttr
                           THEN "ValueError" ELSE "TypeError")

\* C40 as stated: ndict.append in strict mode with a required type stores
\* only named items of the required type; None changes nothing, a named item
\* of the right type is stored under the given key or its name, a dict
\* without the name key has its values appended under their keys, and a
\* rejected item raises ValueError (no name) or TypeError (wrong type) and
\* the container is as it was before the call.
C40_RejectedLeavesContainer ==
    res.fn = "append" =>
        /\ AppendStores
        /\ res.raised # "none" => res.self = query.self

\* C40, amended: as above, but only a call whose own argument is rejected
\* leaves the container as it was; when a value of a dict without the name
\* key is rejected, the values before it in the dict have been stored and
\* stay stored.
C40_RejectedValueKeepsEarlierOnes ==
    res.fn = "append" =>
        /\ AppendStores
        /\ (res.raised # "none"
              /\ (query.arg.kind = "obj" \/ HasNameKey(query.arg)))
             => res.self = query.self
        /\ (res.raised # "none" /\ query.arg.kind = "dict"
              /\ ~HasNameKey(query.arg))
             => res.self = WithValues(query.self, query.arg,
                                      FirstRejected(query.arg) - 1)

C40_Witness ==
    /\ res.fn = "append"
    /\ query.arg.kind = "dict" /\ Len(query.arg.items) = 2
    /\ res.raised = "TypeError"
    /\ "x" \in DOMAIN res.self /\ "x" \notin DOMAIN query.self
    /\ Storable(res.self["x"])

\* the time indices lo, lo+1, ..., hi in order
Range(lo, hi) == [k \in 1..(hi - lo + 1) |-> lo + k - 1]

\* C10 as stated: update at step 0 with burnin runs do_update at the time
\* indices -ceil(dur_pregnancy / dt), ..., -1 and then at 0; any other update
\* runs do_update once, at the current time index.
C10_ReplayFromCeil ==
    (pc = "deaths" /\ lastOp = "update" /\ err = "none") =>
        updTis = IF ti = 0 /\ burnin
                 THEN Range(-CeilDiv(DurPregnancy, Dt), 0)
                 ELSE <<ti>>

\* C10 amended: the replay starts at ceil(-dur_pregnancy / dt), which is
\* -floor(dur_pregnancy / dt): floor(dur_pregnancy / dt) replay updates run
\* before the update of step 0; any other update runs do_update once.
C10_ReplayFromFloor ==
    (pc = "deaths" /\ lastOp = "update" /\ err = "none") =>
        updTis = IF ti = 0 /\ burnin
                 THEN Range(-(DurPregnancy \div Dt), 0)
                 ELSE <<ti>>

\* update at step 0 with burnin has finished when dur_pregnancy / dt is not
\* an integer, and a replay update conceived
C10_Witness ==
    /\ pc = "deaths" /\ lastOp = "update" /\ err = "none"
    /\ ti = 0 /\ burnin /\ DurPregnancy % Dt # 0
    /\ Len(updTis) > 1
    /\ \E u \in Issued : mod.ti_pregnant[u] # NaN /\ mod.ti_pregnant[u] < 0

====
